---- MODULE Spec2Model ----
(***************************************************************************)
(* State-machine model of scripts/sync_lib.py: the sync_docs orchestrator, *)
(* the Manifest store and the AtomicSync snapshot builder, over a file     *)
(* system made of three sibling directories (live, scratch, backup).       *)
(***************************************************************************)
EXTENDS Integers, Sequences, FiniteSets, TLC

\* ---------------------------------------------------------------- bounds
MaxUrls == 2

\* ------------------------------------------------------ program constants
DEFAULT_SANITY_DROP_PCT == 20
DEFAULT_MAX_FAIL_PCT == 15
VERSION == 1

\* ------------------------------------------------------------ value sets
URLs == 1..MaxUrls
None == "None"
Lastmods == {"2024-01-01", "2024-02-01"}
LastmodValues == Lastmods \cup {None}

\* url_to_rel_path: the caller's pure, collision-free mapping of a URL to a
\* path relative to the mirror root.
UrlToRelPath(u) == <<"docs", u>>
Paths == {UrlToRelPath(u) : u \in URLs}

\* Time has two instants: Past (any moment before the current run started)
\* and Now (utc_now_iso() of the current run); 0 stands for "no time".
Past == 1
Now == 2

\* A document as served upstream: identified by its URL and the time it was
\* served (two fetches of one URL at different times are distinguishable).
NoFile == [url |-> 0, ver |-> 0]
Content(u, t) == [url |-> u, ver |-> t]

\* extract_title_and_description: both are functions of the content
NoText == [part |-> "", url |-> 0, ver |-> 0]
ExtractTitle(c) == [part |-> "title", url |-> c.url, ver |-> c.ver]
ExtractDescription(c) == [part |-> "description", url |-> c.url, ver |-> c.ver]

\* ------------------------------------------------------------- manifests
NoEntry == [url |-> 0, lastmod |-> None, local_path |-> <<>>, title |-> NoText,
            description |-> NoText, last_sync_time |-> 0]
EmptyMeta == [last_sync_time |-> 0, last_url_count |-> 0]
\* Manifest(path): meta = {}, entries = {} (a missing last_url_count reads 0)
EmptyManifest == [meta |-> EmptyMeta, entries |-> [u \in URLs |-> NoEntry]]

\* Manifest.get
ManifestGet(m, u) == m.entries[u]
\* faulty variant: an entry already present is not replaced
ManifestSetKeepsFirst(m, e) ==
  IF m.entries[e.url] = NoEntry THEN [m EXCEPT !.entries[e.url] = e] ELSE m
\* Manifest.set: upsert by url
ManifestSet(m, e) == [m EXCEPT !.entries[e.url] = e]
\* Manifest.to_dict + json.dumps: what save() writes
ManifestToFile(m) ==
  [kind |-> "ok", version |-> VERSION, meta |-> m.meta, entries |-> m.entries]
NoManifestFile ==
  [kind |-> "missing", version |-> 0, meta |-> EmptyMeta, entries |-> EmptyManifest.entries]
CorruptManifestFile ==
  [kind |-> "corrupt", version |-> 0, meta |-> EmptyMeta, entries |-> EmptyManifest.entries]

\* ----------------------------------------------------------- directories
NoIndex == [exists |-> FALSE, text |-> <<>>]
NoDir == [exists |-> FALSE, files |-> [p \in Paths |-> NoFile],
          index |-> NoIndex, manifest |-> NoManifestFile]
EmptyDir == [NoDir EXCEPT !.exists = TRUE]
\* What a dead or failed run left in the scratch directory is never read
\* again (prepare and cleanup only remove the tree): once no run is active, a
\* leftover scratch directory is represented by this one non-empty tree.
StaleDir == [EmptyDir EXCEPT !.index = [exists |-> TRUE, text |-> <<>>]]
Leftover(d) == IF d.exists THEN StaleDir ELSE NoDir

\* When a run is over, every time recorded in the mirror lies in the past.
AgeTime(t) == IF t = 0 THEN 0 ELSE Past
AgeStamped(c) == [c EXCEPT !.ver = AgeTime(c.ver)]
AgeEntry(e) == [e EXCEPT !.title = AgeStamped(e.title),
                         !.description = AgeStamped(e.description),
                         !.last_sync_time = AgeTime(e.last_sync_time)]
AgeDocs(docs) == [k \in DOMAIN docs |->
                    <<docs[k][1], AgeStamped(docs[k][2]), AgeStamped(docs[k][3])>>]
Age(d) ==
  [exists |-> d.exists,
   files |-> [p \in Paths |-> AgeStamped(d.files[p])],
   index |-> [exists |-> d.index.exists, text |-> AgeDocs(d.index.text)],
   manifest |-> [d.manifest EXCEPT
                   !.meta.last_sync_time = AgeTime(d.manifest.meta.last_sync_time),
                   !.entries = [u \in URLs |-> AgeEntry(d.manifest.entries[u])]]]

FileExists(d, p) == d.exists /\ d.files[p] # NoFile

\* path.parent.mkdir(parents=True, exist_ok=True)
EnsureDir(d) == IF d.exists THEN d ELSE EmptyDir

\* generate_index: the caller's pure function of docs_info
GenerateIndex(docs) == [exists |-> TRUE, text |-> docs]

\* Manifest.load(path) on the live directory: "missing" when no file exists,
\* "corrupt" raises, otherwise meta and entries of the parsed file.
ManifestLoadRaises(d) == d.exists /\ d.manifest.kind = "corrupt"
\* faulty variant: the previous manifest is not read
ManifestLoadIgnoresFile(d) == EmptyManifest

\* Manifest.load as sync_docs uses it
ManifestLoad(d) ==
  IF d.exists /\ d.manifest.kind = "ok"
  THEN [meta |-> d.manifest.meta, entries |-> d.manifest.entries]
  ELSE EmptyManifest

\* ------------------------------------------------------ sitemap outcomes
\* The filtered, de-duplicated result of SitemapParser.fetch_and_parse:
\* ordered entries with pairwise distinct URLs.
RECURSIVE EntryLists(_)
EntryLists(k) ==
  IF k = 0 THEN {<<>>}
  ELSE LET rest == EntryLists(k - 1)
       IN rest \cup {Append(s, [url |-> k, lastmod |-> lm]) : s \in rest, lm \in LastmodValues}
Sitemaps == EntryLists(MaxUrls)

\* ------------------------------------------------------- guards of sync_docs
\* faulty variant: >= instead of >
SanityDropReached(prev, n, pct) ==
  prev > 0 /\ (prev - n) * 100 >= pct * prev

\* drop_ratio = (prev - n) / prev > sanity_drop_ratio, ratios in percent
SanityDropExceeded(prev, n, pct) ==
  prev > 0 /\ (prev - n) * 100 > pct * prev

\* faulty variant: >= instead of >
FailRatioReached(fails, n, pct) ==
  n > 0 /\ fails * 100 >= pct * n

\* fail_ratio = fail_count / len(entries) > max_fail_ratio
FailRatioExceeded(fails, n, pct) ==
  n > 0 /\ fails * 100 > pct * n

\* faulty variant: the two lastmod values are not compared
NeedDownloadIgnoresLastmod(frc, old, entry, liveDir) ==
  LET old_entry == ManifestGet(old, entry.url) IN
  \/ frc
  \/ old_entry = NoEntry
  \/ ~FileExists(liveDir, UrlToRelPath(entry.url))

\* need_download for one entry
NeedDownload(frc, old, entry, liveDir) ==
  LET old_entry == ManifestGet(old, entry.url) IN
  \/ frc
  \/ old_entry = NoEntry
  \/ entry.lastmod = None
  \/ old_entry.lastmod = None
  \/ entry.lastmod # old_entry.lastmod
  \/ ~FileExists(liveDir, UrlToRelPath(entry.url))

\* ------------------------------------------------- library calls, idle
\* no call of download_content / download_bytes is in progress
NoDownload ==
  [fn |-> "none", max_retries |-> 0, attempt |-> 0, requests |-> 0,
   outcome |-> "idle", reason |-> "none", last |-> "none", delays |-> <<>>]
\* no sitemap document is being served
NoWeb == <<>>
\* no manifest file is being loaded
NoLoad ==
  [file |-> [kind |-> "none", meta |-> <<>>, shape |-> "absent", list |-> <<>>,
             dict |-> <<>>],
   outcome |-> "idle", error |-> "none", meta |-> <<>>, entries |-> <<>>]
\* no Manifest object is being updated or saved
NoStore == [call |-> "none"]
\* no AtomicSync method is examined on its own
NoAtomic == [call |-> "none"]
\* no sitemap traversal is followed step by step
NoCrawl == [at |-> "none"]
\* no two runs share the output directory
NoRuns == <<>>

VARIABLES
  live, tmp, bak,          \* the three sibling directories
  sanity_drop_ratio, max_fail_ratio, required_files,   \* per-site configuration
  pc,                      \* position of the current run
  force, entries, old_manifest, new_manifest,
  i, success_count, fail_count, downloaded_count, reused_count,
  docs_info, had_old, result,
  live0,                   \* history: the live directory when the run started
  cause,                   \* history: why the run failed (its ERROR message),
                           \*          or where it was killed
  cleanup_ok,              \* history: no rmtree of the handler's cleanup failed
  fetched, reused, failed, \* history: URLs given to download_content, copied
                           \*          from the live mirror, counted as failed
  download,                \* one call of download_content or download_bytes
  web,                     \* the documents served at the sitemap URLs
  load,                    \* one call of Manifest.load on a manifest file
  store,                   \* one Manifest object, its file and its temporary file
  atomic,                  \* history: the directories before an AtomicSync call
  crawl,                   \* fetch_and_parse, one recursive call at a time
  runs                     \* the locals of two sync_docs processes

fsVars == <<live, tmp, bak>>
cfgVars == <<sanity_drop_ratio, max_fail_ratio, required_files>>
loopVars == <<i, success_count, fail_count, downloaded_count, reused_count,
              docs_info, new_manifest, fetched, reused, failed>>
runVars == <<force, entries, old_manifest, had_old>>
outVars == <<result, live0, cause, cleanup_ok>>
\* the library calls examined on their own; sync_docs is modelled with their
\* outcomes, so its steps leave these alone
libVars == <<download, web, load, store, atomic, crawl, runs>>
vars == <<fsVars, cfgVars, pc, loopVars, runVars, outVars, libVars>>

\* now = utc_now_iso() of line 413
now == Now

\* The per-site configurations: the defaults of sync_docs with no required
\* file, and looser ratios (given in percent) with one required file.
Configs ==
  {[sanity |-> DEFAULT_SANITY_DROP_PCT, fail |-> DEFAULT_MAX_FAIL_PCT, required |-> {}],
   [sanity |-> 50, fail |-> 50, required |-> {UrlToRelPath(1)}]}

\* no run of sync_docs has started yet
InitSync ==
  /\ live = NoDir /\ tmp = NoDir /\ bak = NoDir
  /\ \E c \in Configs :
       /\ sanity_drop_ratio = c.sanity
       /\ max_fail_ratio = c.fail
       /\ required_files = c.required
  /\ pc = "idle"
  /\ force = FALSE /\ entries = <<>>
  /\ old_manifest = EmptyManifest /\ new_manifest = EmptyManifest
  /\ i = 0 /\ success_count = 0 /\ fail_count = 0
  /\ downloaded_count = 0 /\ reused_count = 0
  /\ docs_info = <<>> /\ had_old = FALSE /\ result = -1
  /\ live0 = NoDir /\ cause = "none" /\ cleanup_ok = TRUE
  /\ fetched = {} /\ reused = {} /\ failed = {}

\* the library calls added later are idle
OthersIdle == store = NoStore /\ atomic = NoAtomic /\ crawl = NoCrawl /\ runs = NoRuns

Init ==
  /\ InitSync
  /\ download = NoDownload /\ web = NoWeb /\ load = NoLoad
  /\ OthersIdle

ResetLoop ==
  /\ i' = 0 /\ success_count' = 0 /\ fail_count' = 0
  /\ downloaded_count' = 0 /\ reused_count' = 0
  /\ docs_info' = <<>> /\ new_manifest' = EmptyManifest
  /\ fetched' = {} /\ reused' = {} /\ failed' = {}

Stopped == pc = "idle"

ResetRun ==
  /\ force' = FALSE /\ entries' = <<>> /\ old_manifest' = EmptyManifest
  /\ had_old' = FALSE

\* an exception propagates to the handler of line 537, or sync_docs returns 1:
\* the locals of the frame are dead from here on
Raise(why) ==
  /\ pc' = "except" /\ cause' = why
  /\ ResetLoop /\ ResetRun
  /\ UNCHANGED <<result, live0, cleanup_ok>>

Return1(why) ==
  /\ pc' = "done" /\ result' = 1 /\ cause' = why
  /\ ResetLoop /\ ResetRun
  /\ UNCHANGED <<live0, cleanup_ok>>

\* sync_docs is called: parameters bound, AtomicSync constructed
StartRun ==
  /\ Stopped
  /\ force' \in BOOLEAN
  /\ entries' = <<>> /\ old_manifest' = EmptyManifest
  /\ had_old' = FALSE /\ result' = -1 /\ cause' = "none" /\ cleanup_ok' = TRUE
  /\ live0' = live
  /\ ResetLoop
  /\ pc' = "load_manifest"
  /\ UNCHANGED <<fsVars, cfgVars, libVars>>


\* line 390: old_manifest = Manifest.load(manifest_path)
LoadManifest ==
  /\ pc = "load_manifest"
  /\ IF ManifestLoadRaises(live)
     THEN Raise("corrupt_manifest")
     ELSE /\ pc' = "fetch_sitemap" /\ old_manifest' = ManifestLoad(live)
          /\ UNCHANGED <<loopVars, force, entries, had_old, outVars>>
  /\ UNCHANGED <<fsVars, cfgVars, libVars>>

\* faulty variant: a forced run skips the sanity guard
FetchSitemapForceSkipsGuard ==
  /\ pc = "fetch_sitemap"
  /\ \E sm \in Sitemaps :
       /\ entries' = sm
       /\ IF Len(sm) = 0
          THEN pc' = "done" /\ result' = 1 /\ cause' = "zero_entries"
          ELSE IF ~force /\ SanityDropExceeded(old_manifest.meta.last_url_count, Len(sm),
                                               sanity_drop_ratio)
          THEN pc' = "done" /\ result' = 1 /\ cause' = "sanity_drop"
          ELSE pc' = "prepare" /\ UNCHANGED <<result, cause>>
  /\ UNCHANGED <<loopVars, force, old_manifest, had_old, live0, cleanup_ok>>
  /\ UNCHANGED <<fsVars, cfgVars, libVars>>

\* lines 393-410: the sitemap is resolved and filtered; zero entries and the
\* sanity guard return 1 at once (no cleanup call on these two paths)
FetchSitemap ==
  /\ pc = "fetch_sitemap"
  /\ \E sm \in Sitemaps :
       /\ entries' = sm
       /\ IF Len(sm) = 0
          THEN pc' = "done" /\ result' = 1 /\ cause' = "zero_entries"
          ELSE IF SanityDropExceeded(old_manifest.meta.last_url_count, Len(sm),
                                     sanity_drop_ratio)
          THEN pc' = "done" /\ result' = 1 /\ cause' = "sanity_drop"
          ELSE pc' = "prepare" /\ UNCHANGED <<result, cause>>
  /\ UNCHANGED <<loopVars, force, old_manifest, had_old, live0, cleanup_ok>>
  /\ UNCHANGED <<fsVars, cfgVars, libVars>>

\* fetch_and_parse raises: download failure, invalid XML, empty index,
\* unsupported root element
FetchSitemapRaises ==
  /\ pc = "fetch_sitemap"
  /\ Raise("sitemap_error")
  /\ UNCHANGED <<fsVars, cfgVars, libVars>>

\* faulty variant: prepare() keeps what it finds in the scratch directory
PrepareKeepsStale ==
  /\ pc = "prepare"
  /\ tmp' = EnsureDir(tmp)
  /\ i' = 1 /\ success_count' = 0 /\ fail_count' = 0
  /\ downloaded_count' = 0 /\ reused_count' = 0
  /\ docs_info' = <<>>
  /\ new_manifest' = [EmptyManifest EXCEPT
                        !.meta = [last_sync_time |-> now, last_url_count |-> Len(entries)]]
  /\ pc' = "loop"
  /\ UNCHANGED <<live, bak, cfgVars, libVars, runVars, outVars, fetched, reused, failed>>

\* lines 412-424: atomic.prepare(), counters, the new in-memory manifest
Prepare ==
  /\ pc = "prepare"
  /\ tmp' = EmptyDir
  /\ i' = 1 /\ success_count' = 0 /\ fail_count' = 0
  /\ downloaded_count' = 0 /\ reused_count' = 0
  /\ docs_info' = <<>>
  /\ new_manifest' = [EmptyManifest EXCEPT
                        !.meta = [last_sync_time |-> now, last_url_count |-> Len(entries)]]
  /\ pc' = "loop"
  /\ UNCHANGED <<live, bak, cfgVars, libVars, runVars, outVars, fetched, reused, failed>>

\* prepare raises: rmtree of a stale scratch directory or mkdir fails
PrepareRaises ==
  /\ pc = "prepare"
  /\ \E removed \in BOOLEAN : tmp' = IF removed THEN NoDir ELSE tmp
  /\ Raise("prepare_error")
  /\ UNCHANGED <<live, bak, cfgVars, libVars>>

InLoop == pc = "loop" /\ i <= Len(entries)

\* the manifest entry of lines 479-488
NewEntry(entry, title, description, sync_time) ==
  [url |-> entry.url, lastmod |-> entry.lastmod,
   local_path |-> UrlToRelPath(entry.url),
   title |-> title, description |-> description, last_sync_time |-> sync_time]

\* faulty variant: success_count is not incremented
RecordSuccessUncounted(entry, title, description, sync_time) ==
  /\ success_count' = success_count
  /\ docs_info' = Append(docs_info, <<entry.url, title, description>>)
  /\ new_manifest' = ManifestSet(new_manifest, NewEntry(entry, title, description, sync_time))
  /\ i' = i + 1

\* lines 477-488: the bookkeeping of a succeeded entry
RecordSuccess(entry, title, description, sync_time) ==
  /\ success_count' = success_count + 1
  /\ docs_info' = Append(docs_info, <<entry.url, title, description>>)
  /\ new_manifest' = ManifestSet(new_manifest, NewEntry(entry, title, description, sync_time))
  /\ i' = i + 1

\* faulty variant: a failed entry keeps its previous manifest entry
EntryDownloadFailsKeepsOld ==
  /\ InLoop
  /\ NeedDownload(force, old_manifest, entries[i], live)
  /\ fetched' = fetched \cup {entries[i].url}
  /\ failed' = failed \cup {entries[i].url}
  /\ fail_count' = fail_count + 1
  /\ new_manifest' = [new_manifest EXCEPT !.entries[entries[i].url] =
                                             live.manifest.entries[entries[i].url]]
  /\ i' = i + 1
  /\ UNCHANGED <<fsVars, cfgVars, libVars, pc, runVars, outVars, success_count,
                 downloaded_count, reused_count, docs_info, reused>>

\* lines 449-455: download_content returned None
EntryDownloadFails ==
  /\ InLoop
  /\ NeedDownload(force, old_manifest, entries[i], live)
  /\ fetched' = fetched \cup {entries[i].url}
  /\ failed' = failed \cup {entries[i].url}
  /\ fail_count' = fail_count + 1
  /\ i' = i + 1
  /\ UNCHANGED <<fsVars, cfgVars, libVars, pc, runVars, outVars, success_count,
                 downloaded_count, reused_count, docs_info, new_manifest, reused>>

\* faulty variant: dst_path is built from output_dir, so the document is written
\* into the live mirror
EntryDownloadedIntoLive ==
  /\ InLoop
  /\ NeedDownload(force, old_manifest, entries[i], live)
  /\ LET entry == entries[i]
         content == Content(entry.url, now)
     IN /\ fetched' = fetched \cup {entry.url}
        /\ live' = [EnsureDir(live) EXCEPT !.files[UrlToRelPath(entry.url)] = content]
        /\ downloaded_count' = downloaded_count + 1
        /\ RecordSuccess(entry, ExtractTitle(content), ExtractDescription(content), now)
  /\ UNCHANGED <<tmp, bak, cfgVars, libVars, pc, runVars, outVars, fail_count,
                 reused_count, reused, failed>>

\* lines 449-466 and 477-488: the document is fetched and staged
EntryDownloaded ==
  /\ InLoop
  /\ NeedDownload(force, old_manifest, entries[i], live)
  /\ LET entry == entries[i]
         content == Content(entry.url, now)
     IN /\ fetched' = fetched \cup {entry.url}
        /\ tmp' = [EnsureDir(tmp) EXCEPT !.files[UrlToRelPath(entry.url)] = content]
        /\ downloaded_count' = downloaded_count + 1
        /\ RecordSuccess(entry, ExtractTitle(content), ExtractDescription(content), now)
  /\ UNCHANGED <<live, bak, cfgVars, libVars, pc, runVars, outVars, fail_count,
                 reused_count, reused, failed>>

\* faulty variant: a reused entry is stamped with the time of this run
EntryReusedRestamps ==
  /\ InLoop
  /\ ~NeedDownload(force, old_manifest, entries[i], live)
  /\ FileExists(live, UrlToRelPath(entries[i].url))
  /\ LET entry == entries[i]
         old_entry == ManifestGet(old_manifest, entry.url)
     IN /\ reused' = reused \cup {entry.url}
        /\ tmp' = [EnsureDir(tmp) EXCEPT !.files[UrlToRelPath(entry.url)] =
                                 live.files[UrlToRelPath(entry.url)]]
        /\ reused_count' = reused_count + 1
        /\ RecordSuccess(entry, old_entry.title, old_entry.description, now)
  /\ UNCHANGED <<live, bak, cfgVars, libVars, pc, runVars, outVars, fail_count,
                 downloaded_count, fetched, failed>>

\* lines 467-488: the live file is copied and the cached fields carried over
EntryReused ==
  /\ InLoop
  /\ ~NeedDownload(force, old_manifest, entries[i], live)
  /\ FileExists(live, UrlToRelPath(entries[i].url))
  /\ LET entry == entries[i]
         old_entry == ManifestGet(old_manifest, entry.url)
         sync_time == IF old_entry.last_sync_time = 0 THEN now ELSE old_entry.last_sync_time
     IN /\ reused' = reused \cup {entry.url}
        /\ tmp' = [EnsureDir(tmp) EXCEPT !.files[UrlToRelPath(entry.url)] =
                                 live.files[UrlToRelPath(entry.url)]]
        /\ reused_count' = reused_count + 1
        /\ RecordSuccess(entry, old_entry.title, old_entry.description, sync_time)
  /\ UNCHANGED <<live, bak, cfgVars, libVars, pc, runVars, outVars, fail_count,
                 downloaded_count, fetched, failed>>

\* an exception while staging an entry (mkdir, write_text, copy2, a callback)
EntryRaises ==
  /\ InLoop
  /\ Raise("staging_error")
  /\ UNCHANGED <<fsVars, cfgVars, libVars>>

\* lines 496-506: the failure-ratio guard and the zero-success guard
CheckFailures ==
  /\ pc = "loop" /\ i > Len(entries)
  /\ IF FailRatioExceeded(fail_count, Len(entries), max_fail_ratio)
     THEN pc' = "abort_cleanup" /\ cause' = "fail_ratio"
     ELSE IF success_count = 0
     THEN pc' = "abort_cleanup" /\ cause' = "zero_success"
     ELSE pc' = "gen_index" /\ UNCHANGED cause
  /\ UNCHANGED <<fsVars, cfgVars, libVars, loopVars, runVars, result, live0, cleanup_ok>>

\* faulty variant: cleanup() removes target_dir instead of tmp_dir
AbortCleanupRemovesTarget ==
  /\ pc = "abort_cleanup"
  /\ live' = NoDir
  /\ Return1(cause)
  /\ UNCHANGED <<tmp, bak, cfgVars, libVars>>

\* atomic.cleanup() followed by return 1 (lines 500-501, 505-506, 522-523, 526-527)
AbortCleanup ==
  /\ pc = "abort_cleanup"
  /\ tmp' = NoDir
  /\ Return1(cause)
  /\ UNCHANGED <<live, bak, cfgVars, libVars>>

\* that cleanup raises (rmtree fails): caught by the handler of line 537
AbortCleanupRaises ==
  /\ pc = "abort_cleanup"
  /\ tmp.exists
  /\ Raise("cleanup_error")
  /\ UNCHANGED <<fsVars, cfgVars, libVars>>

\* lines 512-515: the index is generated and written into the scratch tree
WriteIndex ==
  /\ pc = "gen_index"
  /\ tmp.exists
  /\ tmp' = [tmp EXCEPT !.index = GenerateIndex(docs_info)]
  /\ pc' = "save_manifest"
  /\ UNCHANGED <<live, bak, cfgVars, libVars, loopVars, runVars, outVars>>

\* generate_index or write_text raises
WriteIndexRaises ==
  /\ pc = "gen_index"
  /\ Raise("staging_error")
  /\ UNCHANGED <<fsVars, cfgVars, libVars>>

\* faulty variant: the new manifest is built on the live manifest path, so
\* save() overwrites the live manifest
SaveManifestInPlace ==
  /\ pc = "save_manifest"
  /\ live' = [EnsureDir(live) EXCEPT !.manifest = ManifestToFile(new_manifest)]
  /\ pc' = "check_required"
  /\ UNCHANGED <<tmp, bak, cfgVars, libVars, loopVars, runVars, outVars>>

\* line 517: new_manifest.save() into the scratch tree
SaveManifest ==
  /\ pc = "save_manifest"
  /\ tmp' = [EnsureDir(tmp) EXCEPT !.manifest = ManifestToFile(new_manifest)]
  /\ pc' = "check_required"
  /\ UNCHANGED <<live, bak, cfgVars, libVars, loopVars, runVars, outVars>>

SaveManifestRaises ==
  /\ pc = "save_manifest"
  /\ Raise("staging_error")
  /\ UNCHANGED <<fsVars, cfgVars, libVars>>

\* faulty variant: the required-files check is skipped
MissingRequiredSkipped(d) == {}

\* lines 519-527: required files and the index must exist in the scratch tree
MissingRequired(d) == {p \in required_files : ~FileExists(d, p)}
CheckRequired ==
  /\ pc = "check_required"
  /\ IF MissingRequired(tmp) # {}
     THEN pc' = "abort_cleanup" /\ cause' = "missing_required"
     ELSE IF ~(tmp.exists /\ tmp.index.exists)
     THEN pc' = "abort_cleanup" /\ cause' = "missing_index"
     ELSE pc' = "commit" /\ UNCHANGED cause
  /\ UNCHANGED <<fsVars, cfgVars, libVars, loopVars, runVars, result, live0, cleanup_ok>>

\* ------------------------------------------------------ AtomicSync.commit
\* faulty variant: a backup found while the live directory is absent is put
\* back in its place instead of being removed
CommitBeginRestoresBackup ==
  /\ pc = "commit"
  /\ IF ~tmp.exists
     THEN Raise("commit_no_tmp") /\ UNCHANGED <<live, bak>>
     ELSE /\ pc' = "commit_move" /\ bak' = NoDir
          /\ live' = IF ~live.exists /\ bak.exists THEN bak ELSE live
          /\ UNCHANGED <<loopVars, runVars, outVars>>
  /\ UNCHANGED <<tmp, cfgVars, libVars>>

\* lines 308-314: the scratch directory must exist; a stale backup is removed
CommitBegin ==
  /\ pc = "commit"
  /\ IF ~tmp.exists
     THEN Raise("commit_no_tmp") /\ UNCHANGED bak
     ELSE /\ pc' = "commit_move" /\ bak' = NoDir
          /\ UNCHANGED <<loopVars, runVars, outVars>>
  /\ UNCHANGED <<live, tmp, cfgVars, libVars>>

\* faulty variant: the live directory is moved aside before the stale backup
\* is looked at
CommitBackupStuckAfterMove ==
  /\ pc = "commit"
  /\ tmp.exists /\ bak.exists
  /\ live' = NoDir
  /\ Raise("commit_backup_stuck")
  /\ UNCHANGED <<tmp, bak, cfgVars, libVars>>

\* lines 311-314: rmtree(ignore_errors=True) left the stale backup in place
CommitBackupStuck ==
  /\ pc = "commit"
  /\ tmp.exists /\ bak.exists
  /\ Raise("commit_backup_stuck")
  /\ UNCHANGED <<fsVars, cfgVars, libVars>>

\* lines 316-318: the live directory is renamed to the backup location
CommitMoveOld ==
  /\ pc = "commit_move"
  /\ had_old' = live.exists
  /\ IF live.exists
     THEN bak' = live /\ live' = NoDir
     ELSE UNCHANGED <<live, bak>>
  /\ pc' = "commit_rename"
  /\ UNCHANGED <<tmp, cfgVars, libVars, loopVars, force, entries, old_manifest, outVars>>

\* line 318 raises (outside the try of line 320): nothing was moved
CommitMoveOldRaises ==
  /\ pc = "commit_move"
  /\ live.exists
  /\ Raise("commit_move_error")
  /\ UNCHANGED <<fsVars, cfgVars, libVars>>

\* faulty variant: the scratch directory is copied, not renamed
CommitRenameCopies ==
  /\ pc = "commit_rename"
  /\ tmp.exists /\ ~live.exists
  /\ live' = tmp
  /\ pc' = "commit_rm_backup"
  /\ UNCHANGED <<tmp, bak, cfgVars, libVars, loopVars, runVars, outVars>>

\* line 321: the scratch directory is renamed into the live location
CommitRename ==
  /\ pc = "commit_rename"
  /\ tmp.exists /\ ~live.exists
  /\ live' = tmp /\ tmp' = NoDir
  /\ pc' = "commit_rm_backup"
  /\ UNCHANGED <<bak, cfgVars, libVars, loopVars, runVars, outVars>>

\* line 321 raises: the rename did not happen; control enters the handler
\* of line 322, which reads only had_old
CommitRenameRaises ==
  /\ pc = "commit_rename"
  /\ pc' = "commit_rollback" /\ cause' = "commit_rename_error"
  /\ ResetLoop
  /\ force' = FALSE /\ entries' = <<>> /\ old_manifest' = EmptyManifest
  /\ UNCHANGED <<fsVars, cfgVars, libVars, had_old, result, live0, cleanup_ok>>

\* faulty variant: the last step of the rollback removes backup_dir, not tmp_dir
RollbackRemovesBackup(liveDir, bakDir, tmpDir, hadOld, rmLiveOk, restoreOk, rmTmpOk) ==
  LET live1 == IF liveDir.exists /\ rmLiveOk THEN NoDir ELSE liveDir
      restore == hadOld /\ bakDir.exists /\ ~live1.exists /\ restoreOk
  IN [live |-> IF restore THEN bakDir ELSE live1,
      bak |-> IF restore \/ rmTmpOk THEN NoDir ELSE bakDir,
      tmp |-> tmpDir]

\* lines 322-339: best-effort rollback, every step may fail silently, then
\* the exception is re-raised
RollbackResult(liveDir, bakDir, tmpDir, hadOld, rmLiveOk, restoreOk, rmTmpOk) ==
  LET live1 == IF liveDir.exists /\ rmLiveOk THEN NoDir ELSE liveDir
      restore == hadOld /\ bakDir.exists /\ ~live1.exists /\ restoreOk
  IN [live |-> IF restore THEN bakDir ELSE live1,
      bak |-> IF restore THEN NoDir ELSE bakDir,
      tmp |-> IF tmpDir.exists /\ rmTmpOk THEN NoDir ELSE tmpDir]

CommitRollback ==
  /\ pc = "commit_rollback"
  /\ \E rmLiveOk \in BOOLEAN, restoreOk \in BOOLEAN, rmTmpOk \in BOOLEAN :
       LET r == RollbackResult(live, bak, tmp, had_old, rmLiveOk, restoreOk, rmTmpOk)
       IN live' = r.live /\ bak' = r.bak /\ tmp' = r.tmp
  /\ Raise(cause)
  /\ UNCHANGED <<cfgVars, libVars>>

\* lines 341-346 and 531-536: the superseded backup is removed (a failure is
\* only a warning) and sync_docs returns 0
CommitRemoveBackup ==
  /\ pc = "commit_rm_backup"
  /\ \E rmOk \in BOOLEAN : bak' = IF bak.exists /\ rmOk THEN NoDir ELSE bak
  /\ result' = 0 /\ pc' = "done"
  /\ UNCHANGED <<live, tmp, cfgVars, libVars, loopVars, runVars, live0, cause, cleanup_ok>>

\* faulty variant: the handler returns 1 without calling atomic.cleanup()
ExceptHandlerNoCleanup ==
  /\ pc = "except"
  /\ result' = 1 /\ pc' = "done"
  /\ UNCHANGED <<fsVars, cfgVars, libVars, loopVars, runVars, live0, cause, cleanup_ok>>

\* lines 537-543: the top-level handler; cleanup failures are swallowed
ExceptHandler ==
  /\ pc = "except"
  /\ \E rmOk \in BOOLEAN :
       /\ tmp' = IF tmp.exists /\ rmOk THEN NoDir ELSE tmp
       /\ cleanup_ok' = (~tmp.exists \/ rmOk)
  /\ result' = 1 /\ pc' = "done"
  /\ UNCHANGED <<live, bak, cfgVars, libVars, loopVars, runVars, live0, cause>>

\* ------------------------------------------------------------ environment
\* the process is terminated (signal, power loss) anywhere inside a run:
\* its memory is gone, the file system stays as it is
Interrupt ==
  /\ pc \notin {"idle", "done", "killed"}
  /\ pc' = "killed" /\ cause' = pc
  /\ ResetLoop /\ ResetRun
  /\ UNCHANGED <<fsVars, cfgVars, libVars, result, live0, cleanup_ok>>

\* sync_docs has returned, or the process was killed: the process is gone
Exit ==
  /\ pc \in {"done", "killed"}
  /\ pc' = "idle"
  /\ live' = Age(live) /\ tmp' = Leftover(tmp) /\ bak' = Leftover(bak)
  /\ ResetLoop /\ ResetRun
  /\ result' = -1 /\ cause' = "none" /\ live0' = NoDir /\ cleanup_ok' = TRUE
  /\ UNCHANGED <<cfgVars, libVars>>

\* between runs a mirrored file is deleted by hand
DeleteLiveFile ==
  /\ Stopped
  /\ \E p \in Paths :
       /\ FileExists(live, p)
       /\ live' = [live EXCEPT !.files[p] = NoFile]
  /\ UNCHANGED <<tmp, bak, cfgVars, libVars, pc, loopVars, runVars, outVars>>

\* between runs the manifest file is damaged
CorruptManifest ==
  /\ Stopped
  /\ live.exists /\ live.manifest.kind = "ok"
  /\ live' = [live EXCEPT !.manifest = CorruptManifestFile]
  /\ UNCHANGED <<tmp, bak, cfgVars, libVars, pc, loopVars, runVars, outVars>>

Next ==
  \/ StartRun \/ LoadManifest \/ FetchSitemap \/ FetchSitemapRaises
  \/ Prepare \/ PrepareRaises
  \/ EntryDownloadFails \/ EntryDownloaded \/ EntryReused \/ EntryRaises
  \/ CheckFailures \/ AbortCleanup \/ AbortCleanupRaises
  \/ WriteIndex \/ WriteIndexRaises \/ SaveManifest \/ SaveManifestRaises
  \/ CheckRequired
  \/ CommitBegin \/ CommitBackupStuck \/ CommitMoveOld \/ CommitMoveOldRaises
  \/ CommitRename \/ CommitRenameRaises \/ CommitRollback \/ CommitRemoveBackup
  \/ ExceptHandler
  \/ Interrupt \/ Exit \/ DeleteLiveFile \/ CorruptManifest

Spec == Init /\ [][Next]_vars


\* ======================================================================
\* download_content and download_bytes, one call
\* ======================================================================
syncVars == <<fsVars, cfgVars, pc, loopVars, runVars, outVars>>

MaxRetries == 5
DEFAULT_MAX_RETRIES == 3
RETRY_DELAY == 2
MAX_RETRY_DELAY == 30

RECURSIVE Pow2(_)
Pow2(n) == IF n = 0 THEN 1 ELSE 2 * Pow2(n - 1)
Min(a, b) == IF a <= b THEN a ELSE b

\* delay = min(retry_delay * (2**attempt), max_retry_delay), before the jitter
Backoff(attempt) == Min(RETRY_DELAY * Pow2(attempt), MAX_RETRY_DELAY)

\* a call starts with attempt 0 of range(max_retries)
InitDownload ==
  /\ InitSync
  /\ \E f \in {"download_content", "download_bytes"}, m \in 1..MaxRetries :
       download = [fn |-> f, max_retries |-> m, attempt |-> 0, requests |-> 0,
                   outcome |-> "running", reason |-> "none", last |-> "none",
                   delays |-> <<>>]
  /\ web = NoWeb /\ load = NoLoad /\ OthersIdle

\* one more iteration of the for loop issues a request
Requesting == download.outcome = "running" /\ download.attempt < download.max_retries

\* the function returns or raises
Finish(how, why, response) ==
  /\ download' = [download EXCEPT !.requests = @ + 1, !.outcome = how,
                                  !.reason = why, !.last = response]
  /\ UNCHANGED <<syncVars, web, load, store, atomic, crawl, runs>>

\* lines 74 and 113-119: a response that is valid markdown (any bytes for
\* download_bytes)
DownloadOk ==
  /\ Requesting
  /\ IF download.fn = "download_content"
     THEN Finish("text", "ok", "ok") ELSE Finish("bytes", "ok", "ok")

\* lines 114-116: the response is an HTML page
DownloadHtmlPage ==
  /\ Requesting /\ download.fn = "download_content"
  /\ Finish("None", "html", "html")

\* lines 117-118: validate(content) is false
DownloadInvalid ==
  /\ Requesting /\ download.fn = "download_content"
  /\ Finish("None", "invalid", "invalid")

\* faulty variant: a 404 is handled like any other HTTP error
DownloadNotFoundRetried ==
  /\ Requesting
  /\ download' = [download EXCEPT !.requests = @ + 1, !.attempt = @ + 1,
                    !.last = "404",
                    !.delays = Append(@, [attempt |-> download.attempt,
                                          delay |-> Backoff(download.attempt)])]
  /\ UNCHANGED <<syncVars, web, load, store, atomic, crawl, runs>>

\* lines 82-83 and 126-127: HTTP 404
DownloadNotFound ==
  /\ Requesting
  /\ IF download.fn = "download_content"
     THEN Finish("None", "not_found", "404")
     ELSE Finish("raised", "HTTPError", "404")

\* faulty variant: the loop does not advance on a 429
DownloadRateLimitedNotCounted ==
  /\ Requesting
  /\ download' = [download EXCEPT !.requests = @ + 1, !.last = "429"]
  /\ UNCHANGED <<syncVars, web, load, store, atomic, crawl, runs>>

\* lines 77-81 and 121-125: HTTP 429 with a Retry-After of whole seconds (or
\* none): sleep, then continue with the next attempt of the for loop
DownloadRateLimited ==
  /\ Requesting
  /\ download' = [download EXCEPT !.requests = @ + 1, !.attempt = @ + 1,
                                  !.last = "429"]
  /\ UNCHANGED <<syncVars, web, load, store, atomic, crawl, runs>>

\* lines 78 and 122: HTTP 429 whose Retry-After is not an integer (an HTTP
\* date): int() raises ValueError inside the except clause, which no clause
\* of the try statement catches
DownloadRateLimitedBadHeader ==
  /\ Requesting
  /\ Finish("raised", "ValueError", "429")

\* lines 84-93 and 128-141: another HTTP error, a URLError, any other
\* exception: sleep the backoff delay, next attempt
DownloadTransient ==
  /\ Requesting
  /\ download' = [download EXCEPT !.requests = @ + 1, !.attempt = @ + 1,
                    !.last = "transient",
                    !.delays = Append(@, [attempt |-> download.attempt,
                                          delay |-> Backoff(download.attempt)])]
  /\ UNCHANGED <<syncVars, web, load, store, atomic, crawl, runs>>

\* lines 95 and 142: the for loop is exhausted
DownloadExhausted ==
  /\ download.outcome = "running" /\ download.attempt >= download.max_retries
  /\ download' = [download EXCEPT
                    !.outcome = IF download.fn = "download_content"
                                THEN "None" ELSE "raised",
                    !.reason = "exhausted"]
  /\ UNCHANGED <<syncVars, web, load, store, atomic, crawl, runs>>

NextDownload ==
  \/ DownloadOk
  \/ DownloadHtmlPage
  \/ DownloadInvalid
  \/ DownloadNotFound
  \/ DownloadRateLimited
  \/ DownloadRateLimitedBadHeader
  \/ DownloadTransient
  \/ DownloadExhausted

\* every request times out and every sleep ends: an enabled step is taken
SpecDownload == InitDownload /\ [][NextDownload]_vars /\ WF_vars(NextDownload)

\* ======================================================================
\* SitemapParser.fetch_and_parse, as the first step of a run
\* ======================================================================
MaxElements == 2
MaxChildren == 2

\* the sitemap URLs: the one given to sync_docs and two more
SitemapUrls == {"root", "a", "b"}
\* a <sitemap> element without <loc>; a <url> element without <loc> has loc 0
NoLoc == "none"

RECURSIVE SeqsUpTo(_, _)
SeqsUpTo(S, n) ==
  IF n = 0 THEN {<<>>}
  ELSE LET shorter == SeqsUpTo(S, n - 1)
       IN shorter \cup {Append(q, x) : q \in shorter, x \in S}

\* the <url> elements of a document: loc present or not, lastmod present or not
UrlElements ==
  {[loc |-> 0, lastmod |-> None]} \cup
  {[loc |-> u, lastmod |-> lm] : u \in URLs, lm \in LastmodValues}

\* what download_bytes and ET.fromstring make of a sitemap URL
Urlsets ==
  {[kind |-> "urlset", children |-> <<>>, urls |-> us] :
     us \in SeqsUpTo(UrlElements, MaxElements)}
Indexes(locs) ==
  {[kind |-> "sitemapindex", children |-> cs, urls |-> <<>>] :
     cs \in SeqsUpTo(locs \cup {NoLoc}, MaxChildren)}
BrokenDocs ==
  {[kind |-> k, children |-> <<>>, urls |-> <<>>] :
     k \in {"unreachable", "invalid_xml", "html"}}
EmptyUrlset == [kind |-> "urlset", children |-> <<>>, urls |-> <<>>]

\* an index at the root with any two documents below it (which may be
\* indexes themselves, naming the root or each other), or any other root
Webs ==
  {[u \in SitemapUrls |-> IF u = "root" THEN r ELSE IF u = "a" THEN a ELSE b] :
     r \in Indexes({"a", "b"}),
     a \in Urlsets \cup BrokenDocs \cup Indexes({"root", "b"}),
     b \in Urlsets \cup BrokenDocs \cup Indexes({"root", "a"})}
  \cup
  {[u \in SitemapUrls |-> IF u = "root" THEN r ELSE EmptyUrlset] :
     r \in Urlsets \cup BrokenDocs}

\* lines 214-222: the entries of a urlset; an element without loc is skipped
UrlsetEntries(urls) ==
  LET located == SelectSeq(urls, LAMBDA e : e.loc # 0)
  IN [k \in 1..Len(located) |-> [url |-> located[k].loc, lastmod |-> located[k].lastmod]]

\* faulty variant: nothing is dropped
DedupeKeepsAll(es) == es

\* lines 229-238: _dedupe
RECURSIVE DedupeFrom(_, _, _)
DedupeFrom(es, seen, out) ==
  IF es = <<>> THEN out
  ELSE IF Head(es).url \in seen THEN DedupeFrom(Tail(es), seen, out)
  ELSE DedupeFrom(Tail(es), seen \cup {Head(es).url}, Append(out, Head(es)))
Dedupe(es) == DedupeFrom(es, {}, <<>>)

\* lines 199-203: the child locations of an index
SitemapLocs(doc) == SelectSeq(doc.children, LAMBDA c : c # NoLoc)

\* faulty variant: an index without children is accepted
EmptyIndexAccepted(sitemap_locs) == FALSE

\* lines 204-205
EmptyIndex(sitemap_locs) == sitemap_locs = <<>>

Returned(es, seen) == [raised |-> FALSE, why |-> "none", entries |-> es, seen |-> seen]
Raised(why, seen) == [raised |-> TRUE, why |-> why, entries |-> <<>>, seen |-> seen]

\* lines 186-223: _fetch_and_parse_recursive, with the seen set it mutates
RECURSIVE FetchAndParseRecursive(_, _, _)
RECURSIVE ParseChildren(_, _, _, _)
ParseChildren(w, locs, seen, combined) ==
  IF locs = <<>> THEN Returned(combined, seen)
  ELSE LET r == FetchAndParseRecursive(w, Head(locs), seen)
       IN IF r.raised THEN r
          ELSE ParseChildren(w, Tail(locs), r.seen, combined \o r.entries)
FetchAndParseRecursive(w, sitemap_url, seen) ==
  IF sitemap_url \in seen THEN Returned(<<>>, seen)
  ELSE LET seen1 == seen \cup {sitemap_url}
           doc == w[sitemap_url]
       IN CASE doc.kind = "unreachable" -> Raised("download", seen1)
            [] doc.kind = "invalid_xml" -> Raised("invalid_xml", seen1)
            [] doc.kind = "sitemapindex" ->
                 IF EmptyIndex(SitemapLocs(doc)) THEN Raised("empty_index", seen1)
                 ELSE LET r == ParseChildren(w, SitemapLocs(doc), seen1, <<>>)
                      IN IF r.raised THEN r ELSE [r EXCEPT !.entries = Dedupe(@)]
            [] doc.kind = "urlset" -> Returned(Dedupe(UrlsetEntries(doc.urls)), seen1)
            [] OTHER -> Raised("unsupported_root", seen1)

\* line 183
FetchAndParse(w) == FetchAndParseRecursive(w, "root", {})

\* a first run (no mirror yet, default ratios) about to fetch the sitemap
InitSitemap ==
  /\ live = NoDir /\ tmp = NoDir /\ bak = NoDir
  /\ sanity_drop_ratio = DEFAULT_SANITY_DROP_PCT
  /\ max_fail_ratio = DEFAULT_MAX_FAIL_PCT
  /\ required_files = {}
  /\ pc = "fetch_sitemap"
  /\ force = FALSE /\ entries = <<>>
  /\ old_manifest = EmptyManifest /\ new_manifest = EmptyManifest
  /\ i = 0 /\ success_count = 0 /\ fail_count = 0
  /\ downloaded_count = 0 /\ reused_count = 0
  /\ docs_info = <<>> /\ had_old = FALSE /\ result = -1
  /\ live0 = NoDir /\ cause = "none" /\ cleanup_ok = TRUE
  /\ fetched = {} /\ reused = {} /\ failed = {}
  /\ web \in Webs
  /\ download = NoDownload /\ load = NoLoad /\ OthersIdle

\* lines 393-410 with the parser spelled out: fetch_and_parse returns
FetchAndParseReturns ==
  /\ pc = "fetch_sitemap"
  /\ ~FetchAndParse(web).raised
  /\ LET sm == FetchAndParse(web).entries
     IN /\ entries' = sm
        /\ IF Len(sm) = 0
           THEN pc' = "done" /\ result' = 1 /\ cause' = "zero_entries"
           ELSE IF SanityDropExceeded(old_manifest.meta.last_url_count, Len(sm),
                                      sanity_drop_ratio)
           THEN pc' = "done" /\ result' = 1 /\ cause' = "sanity_drop"
           ELSE pc' = "prepare" /\ UNCHANGED <<result, cause>>
  /\ UNCHANGED <<loopVars, force, old_manifest, had_old, live0, cleanup_ok>>
  /\ UNCHANGED <<fsVars, cfgVars, libVars>>

\* fetch_and_parse raises into the handler of line 537
FetchAndParseRaises ==
  /\ pc = "fetch_sitemap"
  /\ FetchAndParse(web).raised
  /\ Raise("sitemap_error")
  /\ UNCHANGED <<fsVars, cfgVars, libVars>>

NextSitemap ==
  \/ FetchAndParseReturns
  \/ FetchAndParseRaises
  \/ ExceptHandler

SpecSitemap == InitSitemap /\ [][NextSitemap]_vars

\* ======================================================================
\* Manifest.load, one call
\* ======================================================================
MaxItems == 2

\* a value found under "entries": an entry object (url 0: no or empty "url")
\* or something that is not an object
NoItem == [obj |-> FALSE, url |-> -1, lastmod |-> None]
NotAnObject == [obj |-> FALSE, url |-> 0, lastmod |-> None]
EntryObjects == {[obj |-> TRUE, url |-> u, lastmod |-> lm] : u \in 0..MaxUrls, lm \in Lastmods}
Items == EntryObjects \cup {NotAnObject}

SomeMeta == [last_sync_time |-> Past, last_url_count |-> 1]

\* the file at the manifest path: absent, not JSON, JSON that is not an
\* object, or an object whose "entries" is absent or null, falsy (0, "",
\* false), another scalar, a list or an object
ManifestFiles ==
  {[kind |-> k, meta |-> EmptyMeta, shape |-> "absent", list |-> <<>>,
    dict |-> [u \in URLs |-> NoItem]] : k \in {"absent", "not_json", "not_object"}}
  \cup
  {[kind |-> "object", meta |-> m, shape |-> sh, list |-> <<>>,
    dict |-> [u \in URLs |-> NoItem]] :
     m \in {EmptyMeta, SomeMeta}, sh \in {"absent", "falsy", "scalar"}}
  \cup
  {[kind |-> "object", meta |-> m, shape |-> "list", list |-> l,
    dict |-> [u \in URLs |-> NoItem]] :
     m \in {EmptyMeta, SomeMeta}, l \in SeqsUpTo(Items, MaxItems)}
  \cup
  {[kind |-> "object", meta |-> m, shape |-> "dict", list |-> <<>>, dict |-> d] :
     m \in {EmptyMeta, SomeMeta}, d \in [URLs -> Items \cup {NoItem}]}

InitLoad ==
  /\ InitSync
  /\ sanity_drop_ratio = DEFAULT_SANITY_DROP_PCT
  /\ \E f \in ManifestFiles :
       load = [file |-> f, outcome |-> "called", error |-> "none",
               meta |-> EmptyMeta, entries |-> [u \in URLs |-> NoItem]]
  /\ download = NoDownload /\ web = NoWeb /\ OthersIdle

\* line 265: {e.get("url"): e for e in entries if isinstance(e, dict) and
\* e.get("url")}: a later item replaces an earlier one with the same url
FromList(l) ==
  [u \in URLs |->
     LET at == {k \in 1..Len(l) : l[k].obj /\ l[k].url = u}
     IN IF at = {} THEN NoItem ELSE l[CHOOSE k \in at : \A j \in at : j <= k]]

\* lines 263-265: entries = data.get("entries") or {}, a list is converted
LoadedEntries(f) ==
  CASE f.shape = "dict" -> f.dict
    [] f.shape = "list" -> FromList(f.list)
    [] OTHER -> [u \in URLs |-> NoItem]

\* faulty variant: the type of entries is not checked
EntriesNeverRejected(f) == FALSE

\* lines 266-267: what is left is not a dict
EntriesRejected(f) == f.shape = "scalar"

LoadEnds(how, err, meta, es) ==
  /\ load' = [load EXCEPT !.outcome = how, !.error = err, !.meta = meta, !.entries = es]
  /\ UNCHANGED <<syncVars, download, web, store, atomic, crawl, runs>>

\* lines 254-255: no file at the path
ManifestLoadAbsent ==
  /\ load.outcome = "called" /\ load.file.kind = "absent"
  /\ LoadEnds("returned", "none", EmptyMeta, [u \in URLs |-> NoItem])

\* lines 257-260: the file cannot be read as JSON
ManifestLoadUnreadable ==
  /\ load.outcome = "called" /\ load.file.kind = "not_json"
  /\ LoadEnds("raised", "RuntimeError", EmptyMeta, [u \in URLs |-> NoItem])

\* line 262: data.get on JSON that is not an object
ManifestLoadNotObject ==
  /\ load.outcome = "called" /\ load.file.kind = "not_object"
  /\ LoadEnds("raised", "AttributeError", EmptyMeta, [u \in URLs |-> NoItem])

\* lines 266-267
ManifestLoadEntriesRejected ==
  /\ load.outcome = "called" /\ load.file.kind = "object"
  /\ EntriesRejected(load.file)
  /\ LoadEnds("raised", "RuntimeError", EmptyMeta, [u \in URLs |-> NoItem])

\* lines 262-269
ManifestLoadReturns ==
  /\ load.outcome = "called" /\ load.file.kind = "object"
  /\ ~EntriesRejected(load.file)
  /\ LoadEnds("returned", "none", load.file.meta, LoadedEntries(load.file))

NextLoad ==
  \/ ManifestLoadAbsent
  \/ ManifestLoadUnreadable
  \/ ManifestLoadNotObject
  \/ ManifestLoadEntriesRejected
  \/ ManifestLoadReturns

SpecLoad == InitLoad /\ [][NextLoad]_vars

\* ======================================================================
\* Manifest.set and Manifest.save, one call
\* ======================================================================
\* the entries a manifest can hold for a URL: one made by an earlier run and
\* one made now; url 0 stands for a missing or empty "url"
StoreEntry(u, t) ==
  NewEntry([url |-> u, lastmod |-> IF t = Past THEN "2024-01-01" ELSE "2024-02-01"],
           ExtractTitle(Content(u, t)), ExtractDescription(Content(u, t)), t)
StoreEntries == {StoreEntry(u, t) : u \in 0..MaxUrls, t \in {Past, Now}}
StoreManifests ==
  {[meta |-> [last_sync_time |-> Now, last_url_count |-> MaxUrls], entries |-> es] :
     es \in {f \in [URLs -> StoreEntries \cup {NoEntry}] :
               \A u \in URLs : f[u] = NoEntry \/ f[u].url = u}}

\* a manifest file cut short by a crash or a failed write
PartialManifestFile ==
  [kind |-> "partial", version |-> 0, meta |-> EmptyMeta, entries |-> EmptyManifest.entries]

\* the object before the call, the argument of set, and for save the file at
\* self.path (target) and at self.path + ".__tmp__" (temp)
InitStore ==
  /\ InitSync
  /\ sanity_drop_ratio = DEFAULT_SANITY_DROP_PCT
  /\ download = NoDownload /\ web = NoWeb /\ load = NoLoad
  /\ atomic = NoAtomic /\ crawl = NoCrawl /\ runs = NoRuns
  /\ \E m \in StoreManifests :
       \/ \E e \in StoreEntries :
            store = [call |-> "set", at |-> "called", manifest |-> m, manifest0 |-> m,
                     entry |-> e, target |-> NoManifestFile, target0 |-> NoManifestFile,
                     temp |-> NoManifestFile]
       \/ \E m0 \in StoreManifests, had \in BOOLEAN, stale \in BOOLEAN :
            LET t0 == IF had THEN ManifestToFile(m0) ELSE NoManifestFile
            IN store = [call |-> "save", at |-> "called", manifest |-> m, manifest0 |-> m,
                        entry |-> NoEntry, target |-> t0, target0 |-> t0,
                        temp |-> IF stale THEN PartialManifestFile ELSE NoManifestFile]

StoreFrame == UNCHANGED <<syncVars, download, web, load, atomic, crawl, runs>>

\* lines 275-278: the entry has a url and replaces what was stored for it
SetStores ==
  /\ store.call = "set" /\ store.at = "called"
  /\ store.entry.url # 0
  /\ store' = [store EXCEPT !.manifest = ManifestSet(@, store.entry), !.at = "returned"]
  /\ StoreFrame

\* lines 276-277: ValueError
SetRaises ==
  /\ store.call = "set" /\ store.at = "called"
  /\ store.entry.url = 0
  /\ store' = [store EXCEPT !.at = "raised"]
  /\ StoreFrame

\* lines 285-289, the open of write_text: the temporary file is created or
\* truncated
SaveOpen ==
  /\ store.call = "save" /\ store.at = "called"
  /\ store' = [store EXCEPT !.temp = PartialManifestFile, !.at = "writing"]
  /\ StoreFrame

\* faulty variant: the text is written to self.path itself
SaveWriteInPlace ==
  /\ store.call = "save" /\ store.at = "writing"
  /\ store' = [store EXCEPT !.target = PartialManifestFile, !.at = "written"]
  /\ StoreFrame

\* lines 286-289: the whole text is in the temporary file and the file closed
SaveWrite ==
  /\ store.call = "save" /\ store.at = "writing"
  /\ store' = [store EXCEPT !.temp = ManifestToFile(store.manifest), !.at = "written"]
  /\ StoreFrame

\* line 290: tmp_path.replace(self.path), one atomic rename
SaveReplace ==
  /\ store.call = "save" /\ store.at = "written"
  /\ store' = [store EXCEPT !.target = store.temp, !.temp = NoManifestFile,
                           !.at = "returned"]
  /\ StoreFrame

\* mkdir, json.dumps, write_text or replace raises (OSError, TypeError)
SaveRaises ==
  /\ store.call = "save" /\ store.at \in {"called", "writing", "written"}
  /\ store' = [store EXCEPT !.at = "raised"]
  /\ StoreFrame

\* the process dies inside save
SaveCrash ==
  /\ store.call = "save" /\ store.at \in {"called", "writing", "written"}
  /\ store' = [store EXCEPT !.at = "crashed"]
  /\ StoreFrame

NextStore ==
  \/ SetStores \/ SetRaises
  \/ SaveOpen \/ SaveWrite \/ SaveReplace \/ SaveRaises \/ SaveCrash

SpecStore == InitStore /\ [][NextStore]_vars

\* ======================================================================
\* AtomicSync.prepare, commit and cleanup, one call from any directories
\* ======================================================================
\* a directory: absent, empty, or holding any documents of an earlier time,
\* with or without an index
FilesAt(ps, t) == [p \in Paths |-> IF p \in ps THEN Content(p[2], t) ELSE NoFile]
DirStates ==
  {NoDir} \cup
  {[EmptyDir EXCEPT !.files = FilesAt(ps, Past), !.index = ix] :
     ps \in SUBSET Paths, ix \in {NoIndex, GenerateIndex(<<>>)}}

\* what a run has staged when it calls commit
StagedStates ==
  {NoDir} \cup
  {[EmptyDir EXCEPT !.files = FilesAt(ps, Now), !.index = GenerateIndex(<<>>)] :
     ps \in SUBSET Paths}

\* sync_docs is about to call atomic.prepare() (line 412), atomic.commit()
\* (line 529) or atomic.cleanup() (lines 500, 505, 522, 526)
InitAtomic ==
  /\ \E call \in {"prepare", "commit", "abort_cleanup"} :
       /\ pc = call
       /\ live \in DirStates /\ bak \in DirStates
       /\ tmp \in IF call = "commit" THEN StagedStates ELSE DirStates
       /\ atomic = [call |-> call, live0 |-> live, tmp0 |-> tmp, bak0 |-> bak]
  /\ sanity_drop_ratio = DEFAULT_SANITY_DROP_PCT
  /\ max_fail_ratio = DEFAULT_MAX_FAIL_PCT
  /\ required_files = {}
  /\ force = FALSE /\ entries = <<[url |-> 1, lastmod |-> None]>>
  /\ old_manifest = EmptyManifest /\ new_manifest = EmptyManifest
  /\ i = 0 /\ success_count = 0 /\ fail_count = 0
  /\ downloaded_count = 0 /\ reused_count = 0
  /\ docs_info = <<>> /\ had_old = FALSE /\ result = -1
  /\ live0 = live /\ cause = "none" /\ cleanup_ok = TRUE
  /\ fetched = {} /\ reused = {} /\ failed = {}
  /\ download = NoDownload /\ web = NoWeb /\ load = NoLoad
  /\ store = NoStore /\ crawl = NoCrawl /\ runs = NoRuns

NextAtomic ==
  \/ Prepare \/ PrepareRaises
  \/ CommitBegin \/ CommitBackupStuck \/ CommitMoveOld \/ CommitMoveOldRaises
  \/ CommitRename \/ CommitRenameRaises \/ CommitRollback \/ CommitRemoveBackup
  \/ AbortCleanup \/ AbortCleanupRaises

SpecAtomic == InitAtomic /\ [][NextAtomic]_vars

\* ======================================================================
\* main of fetch_platform_docs.py and fetch_claude_code_docs.py
\* ======================================================================
\* discover_pages_from_sitemap returns URLs only
UrlLists == {sm \in Sitemaps : \A k \in 1..Len(sm) : sm[k].lastmod = None}

\* the script starts; live is its output directory
InitFetch ==
  /\ live \in DirStates /\ tmp = NoDir /\ bak = NoDir
  /\ sanity_drop_ratio = DEFAULT_SANITY_DROP_PCT
  /\ max_fail_ratio = DEFAULT_MAX_FAIL_PCT
  /\ required_files = {}
  /\ pc = "main_clean"
  /\ force = FALSE /\ entries = <<>>
  /\ old_manifest = EmptyManifest /\ new_manifest = EmptyManifest
  /\ i = 0 /\ success_count = 0 /\ fail_count = 0
  /\ downloaded_count = 0 /\ reused_count = 0
  /\ docs_info = <<>> /\ had_old = FALSE /\ result = -1
  /\ live0 = live /\ cause = "none" /\ cleanup_ok = TRUE
  /\ fetched = {} /\ reused = {} /\ failed = {}
  /\ download = NoDownload /\ web = NoWeb /\ load = NoLoad /\ OthersIdle

FetchFrame ==
  UNCHANGED <<tmp, bak, cfgVars, libVars, force, old_manifest, new_manifest,
              downloaded_count, reused_count, had_old, live0, cleanup_ok,
              fetched, reused, failed>>

\* "if output_dir.exists(): shutil.rmtree(output_dir)", the first statement
MainClean ==
  /\ pc = "main_clean"
  /\ live' = NoDir
  /\ pc' = "main_discover"
  /\ UNCHANGED <<entries, i, success_count, fail_count, docs_info, result, cause>>
  /\ FetchFrame

\* discover_pages_from_sitemap: any exception is caught and [] returned
MainDiscoverFails ==
  /\ pc = "main_discover"
  /\ entries' = <<>>
  /\ pc' = "done" /\ result' = 1 /\ cause' = "sitemap_error"
  /\ UNCHANGED <<live, i, success_count, fail_count, docs_info>>
  /\ FetchFrame

\* "if not urls: return 1", else output_dir.mkdir and the counters
MainDiscover ==
  /\ pc = "main_discover"
  /\ \E urls \in UrlLists :
       /\ entries' = urls
       /\ IF Len(urls) = 0
          THEN /\ pc' = "done" /\ result' = 1 /\ cause' = "zero_entries"
               /\ UNCHANGED <<live, i>>
          ELSE /\ pc' = "main_loop" /\ live' = EnsureDir(live) /\ i' = 1
               /\ UNCHANGED <<result, cause>>
  /\ UNCHANGED <<success_count, fail_count, docs_info>>
  /\ FetchFrame

\* download_and_save_file returns (True, title, description)
MainDownloaded ==
  /\ pc = "main_loop" /\ i <= Len(entries)
  /\ LET url == entries[i].url
         content == Content(url, now)
     IN /\ live' = [EnsureDir(live) EXCEPT !.files[UrlToRelPath(url)] = content]
        /\ docs_info' = Append(docs_info, <<url, ExtractTitle(content),
                                            ExtractDescription(content)>>)
  /\ success_count' = success_count + 1
  /\ i' = i + 1
  /\ UNCHANGED <<entries, fail_count, pc, result, cause>>
  /\ FetchFrame

\* download_and_save_file returns (False, None, None)
MainDownloadFails ==
  /\ pc = "main_loop" /\ i <= Len(entries)
  /\ fail_count' = fail_count + 1
  /\ i' = i + 1
  /\ UNCHANGED <<live, entries, success_count, docs_info, pc, result, cause>>
  /\ FetchFrame

\* the index is written; "return 0 if fail_count == 0 else 1"
MainWriteIndex ==
  /\ pc = "main_loop" /\ i > Len(entries)
  /\ live' = [EnsureDir(live) EXCEPT !.index = GenerateIndex(docs_info)]
  /\ pc' = "done"
  /\ result' = IF fail_count = 0 THEN 0 ELSE 1
  /\ cause' = IF fail_count = 0 THEN "none" ELSE "downloads_failed"
  /\ UNCHANGED <<entries, i, success_count, fail_count, docs_info>>
  /\ FetchFrame

NextFetch ==
  \/ MainClean \/ MainDiscoverFails \/ MainDiscover
  \/ MainDownloaded \/ MainDownloadFails \/ MainWriteIndex

SpecFetch == InitFetch /\ [][NextFetch]_vars

\* ======================================================================
\* SitemapParser.fetch_and_parse, one recursive call at a time
\* ======================================================================
\* any graph of references between the three sitemap URLs, cycles and
\* self-references included; a urlset lists no, one or two pages
CrawlUrlsets ==
  {[kind |-> "urlset", children |-> <<>>, urls |-> us] :
     us \in {<<>>, <<[loc |-> 1, lastmod |-> None]>>,
             <<[loc |-> 1, lastmod |-> None], [loc |-> MaxUrls, lastmod |-> None]>>}}
CrawlDocs == CrawlUrlsets \cup BrokenDocs \cup Indexes(SitemapUrls)
CrawlWebs == [SitemapUrls -> CrawlDocs]

\* fetch_and_parse(sitemap_url) is called: seen is empty (line 184); the
\* stack holds, for every index being traversed, the children still to visit
InitCrawl ==
  /\ InitSync
  /\ sanity_drop_ratio = DEFAULT_SANITY_DROP_PCT
  /\ download = NoDownload /\ load = NoLoad
  /\ store = NoStore /\ atomic = NoAtomic /\ runs = NoRuns
  /\ web \in CrawlWebs
  /\ crawl = [at |-> "running", seen |-> {}, downloads |-> [u \in SitemapUrls |-> 0],
              stack |-> << <<"root">> >>, collected |-> <<>>]

CrawlFrame == UNCHANGED <<syncVars, download, web, load, store, atomic, runs>>

\* faulty variant: the visited set is not consulted
NeverSeen(sitemap_url, seen) == FALSE

\* line 187: if sitemap_url in seen
AlreadySeen(sitemap_url, seen) == sitemap_url \in seen

\* the next recursive call and what is left for its caller afterwards
Calling == crawl.at = "running" /\ crawl.stack # <<>> /\ Head(crawl.stack) # <<>>
NextUrl == Head(Head(crawl.stack))
AfterCall == <<Tail(Head(crawl.stack))>> \o Tail(crawl.stack)

\* lines 187-188: a URL in seen returns [] at once
CrawlSkip ==
  /\ Calling /\ AlreadySeen(NextUrl, crawl.seen)
  /\ crawl' = [crawl EXCEPT !.stack = AfterCall]
  /\ CrawlFrame

\* lines 189-191 and 214-223: a urlset is downloaded and its entries returned
CrawlUrlset ==
  /\ Calling /\ ~AlreadySeen(NextUrl, crawl.seen)
  /\ web[NextUrl].kind = "urlset"
  /\ crawl' = [crawl EXCEPT !.seen = @ \cup {NextUrl},
                           !.downloads[NextUrl] = @ + 1,
                           !.collected = @ \o UrlsetEntries(web[NextUrl].urls),
                           !.stack = AfterCall]
  /\ CrawlFrame

\* lines 189-207: an index is downloaded and its children are visited in order
CrawlIndex ==
  /\ Calling /\ ~AlreadySeen(NextUrl, crawl.seen)
  /\ web[NextUrl].kind = "sitemapindex"
  /\ ~EmptyIndex(SitemapLocs(web[NextUrl]))
  /\ crawl' = [crawl EXCEPT !.seen = @ \cup {NextUrl},
                           !.downloads[NextUrl] = @ + 1,
                           !.stack = <<SitemapLocs(web[NextUrl])>> \o AfterCall]
  /\ CrawlFrame

\* lines 191-195, 204-205, 211-212: the download, the parse or the document
\* is refused; the exception ends the whole call
CrawlRaises ==
  /\ Calling /\ ~AlreadySeen(NextUrl, crawl.seen)
  /\ \/ web[NextUrl].kind \notin {"urlset", "sitemapindex"}
     \/ /\ web[NextUrl].kind = "sitemapindex"
        /\ EmptyIndex(SitemapLocs(web[NextUrl]))
  /\ crawl' = [crawl EXCEPT !.seen = @ \cup {NextUrl},
                           !.downloads[NextUrl] = @ + 1,
                           !.at = "raised"]
  /\ CrawlFrame

\* lines 206-209: the loop over the children of an index is over
CrawlReturn ==
  /\ crawl.at = "running" /\ crawl.stack # <<>> /\ Head(crawl.stack) = <<>>
  /\ crawl' = [crawl EXCEPT !.stack = Tail(crawl.stack),
                           !.at = IF Tail(crawl.stack) = <<>> THEN "returned" ELSE @]
  /\ CrawlFrame

NextCrawl == CrawlSkip \/ CrawlUrlset \/ CrawlIndex \/ CrawlRaises \/ CrawlReturn

SpecCrawl == InitCrawl /\ [][NextCrawl]_vars /\ WF_vars(NextCrawl)

\* ======================================================================
\* two sync_docs processes on one output directory
\* ======================================================================
\* Both processes are given the same output_dir, so AtomicSync derives the
\* same scratch and backup paths (lines 296-299): live, tmp and bak are
\* shared, the locals of sync_docs are per process. Both run with force=True
\* on the same sitemap and the default ratios.
Procs == {"A", "B"}
\* utc_now_iso() of each process; it tells whose write a staged file is
RunTime(p) == IF p = "A" THEN Past ELSE Now
TwoRunEntries == [k \in 1..MaxUrls |-> [url |-> k, lastmod |-> None]]

NotStarted ==
  [pc |-> "idle", i |-> 0, fail_count |-> 0, success_count |-> 0, docs_info |-> <<>>,
   new_manifest |-> EmptyManifest, had_old |-> FALSE, result |-> -1,
   committed |-> NoDir]

InitTwoRuns ==
  /\ InitSync
  /\ sanity_drop_ratio = DEFAULT_SANITY_DROP_PCT
  /\ download = NoDownload /\ web = NoWeb /\ load = NoLoad
  /\ store = NoStore /\ atomic = NoAtomic /\ crawl = NoCrawl
  /\ runs = [p \in Procs |-> NotStarted]

TwoRunsFrame == UNCHANGED <<cfgVars, pc, loopVars, runVars, outVars,
                            download, web, load, store, atomic, crawl>>

\* an exception reaches the handler of line 537
RunRaise(p) == runs' = [runs EXCEPT ![p].pc = "except"]

\* faulty variant: prepare() leaves an existing scratch directory as it is
RunPrepareKeepsScratch(p) ==
  /\ runs[p].pc = "idle"
  /\ tmp' = EnsureDir(tmp)
  /\ runs' = [runs EXCEPT ![p].pc = "loop", ![p].i = 1,
                          ![p].new_manifest =
                             [EmptyManifest EXCEPT !.meta =
                                [last_sync_time |-> RunTime(p),
                                 last_url_count |-> Len(TwoRunEntries)]]]
  /\ UNCHANGED <<live, bak>>

\* lines 412-424: atomic.prepare() with no lock taken
RunPrepare(p) ==
  /\ runs[p].pc = "idle"
  /\ tmp' = EmptyDir
  /\ runs' = [runs EXCEPT ![p].pc = "loop", ![p].i = 1,
                          ![p].new_manifest =
                             [EmptyManifest EXCEPT !.meta =
                                [last_sync_time |-> RunTime(p),
                                 last_url_count |-> Len(TwoRunEntries)]]]
  /\ UNCHANGED <<live, bak>>

TwoRunsPrepare == \E p \in Procs : RunPrepare(p) /\ TwoRunsFrame

\* lines 449-466 and 477-488: mkdir(parents=True) recreates a scratch
\* directory that is gone
TwoRunsDownloaded ==
  /\ \E p \in Procs :
       LET r == runs[p]
           entry == TwoRunEntries[r.i]
           content == Content(entry.url, RunTime(p))
       IN /\ r.pc = "loop" /\ r.i <= Len(TwoRunEntries)
          /\ tmp' = [EnsureDir(tmp) EXCEPT !.files[UrlToRelPath(entry.url)] = content]
          /\ runs' = [runs EXCEPT
                        ![p].i = r.i + 1,
                        ![p].success_count = r.success_count + 1,
                        ![p].docs_info = Append(r.docs_info,
                           <<entry.url, ExtractTitle(content), ExtractDescription(content)>>),
                        ![p].new_manifest = ManifestSet(r.new_manifest,
                           NewEntry(entry, ExtractTitle(content),
                                    ExtractDescription(content), RunTime(p)))]
  /\ UNCHANGED <<live, bak>>
  /\ TwoRunsFrame

\* lines 452-455
TwoRunsDownloadFails ==
  /\ \E p \in Procs :
       /\ runs[p].pc = "loop" /\ runs[p].i <= Len(TwoRunEntries)
       /\ runs' = [runs EXCEPT ![p].i = @ + 1, ![p].fail_count = @ + 1]
  /\ UNCHANGED fsVars
  /\ TwoRunsFrame

\* lines 496-506
TwoRunsCheckFailures ==
  /\ \E p \in Procs :
       /\ runs[p].pc = "loop" /\ runs[p].i > Len(TwoRunEntries)
       /\ runs' = [runs EXCEPT ![p].pc =
            IF \/ FailRatioExceeded(runs[p].fail_count, Len(TwoRunEntries), max_fail_ratio)
               \/ runs[p].success_count = 0
            THEN "abort_cleanup" ELSE "gen_index"]
  /\ UNCHANGED fsVars
  /\ TwoRunsFrame

\* atomic.cleanup() and return 1, and the handler of lines 537-543: whatever
\* is in the shared scratch directory is removed
TwoRunsCleanup ==
  /\ \E p \in Procs :
       /\ runs[p].pc \in {"abort_cleanup", "except"}
       /\ runs' = [runs EXCEPT ![p].pc = "done", ![p].result = 1]
  /\ tmp' = NoDir
  /\ UNCHANGED <<live, bak>>
  /\ TwoRunsFrame

\* lines 512-515: write_text creates no directory, so it raises when the
\* scratch directory is gone
TwoRunsWriteIndex ==
  /\ \E p \in Procs :
       /\ runs[p].pc = "gen_index"
       /\ IF tmp.exists
          THEN /\ tmp' = [tmp EXCEPT !.index = GenerateIndex(runs[p].docs_info)]
               /\ runs' = [runs EXCEPT ![p].pc = "save_manifest"]
          ELSE RunRaise(p) /\ UNCHANGED tmp
  /\ UNCHANGED <<live, bak>>
  /\ TwoRunsFrame

\* line 517: save() creates the parent directory if needed
TwoRunsSaveManifest ==
  /\ \E p \in Procs :
       /\ runs[p].pc = "save_manifest"
       /\ tmp' = [EnsureDir(tmp) EXCEPT !.manifest = ManifestToFile(runs[p].new_manifest)]
       /\ runs' = [runs EXCEPT ![p].pc = "check_required"]
  /\ UNCHANGED <<live, bak>>
  /\ TwoRunsFrame

\* lines 519-527, no required file declared
TwoRunsCheckRequired ==
  /\ \E p \in Procs :
       /\ runs[p].pc = "check_required"
       /\ runs' = [runs EXCEPT ![p].pc =
            IF tmp.exists /\ tmp.index.exists THEN "commit" ELSE "abort_cleanup"]
  /\ UNCHANGED fsVars
  /\ TwoRunsFrame

\* lines 308-314
TwoRunsCommitBegin ==
  /\ \E p \in Procs :
       /\ runs[p].pc = "commit"
       /\ IF tmp.exists
          THEN bak' = NoDir /\ runs' = [runs EXCEPT ![p].pc = "commit_move"]
          ELSE RunRaise(p) /\ UNCHANGED bak
  /\ UNCHANGED <<live, tmp>>
  /\ TwoRunsFrame

\* lines 316-318: rename onto a backup directory that the other process has
\* just created raises (the directory is not empty)
TwoRunsCommitMoveOld ==
  /\ \E p \in Procs :
       /\ runs[p].pc = "commit_move"
       /\ IF ~live.exists
          THEN /\ runs' = [runs EXCEPT ![p].pc = "commit_rename", ![p].had_old = FALSE]
               /\ UNCHANGED <<live, bak>>
          ELSE IF bak.exists
          THEN RunRaise(p) /\ UNCHANGED <<live, bak>>
          ELSE /\ runs' = [runs EXCEPT ![p].pc = "commit_rename", ![p].had_old = TRUE]
               /\ bak' = live /\ live' = NoDir
  /\ UNCHANGED tmp
  /\ TwoRunsFrame

\* lines 320-339: the rename succeeds, or it raises (no scratch directory, or
\* a live directory put in place by the other process) and the rollback runs
TwoRunsCommitRename ==
  /\ \E p \in Procs :
       /\ runs[p].pc = "commit_rename"
       /\ IF tmp.exists /\ ~live.exists
          THEN /\ live' = tmp /\ tmp' = NoDir /\ UNCHANGED bak
               /\ runs' = [runs EXCEPT ![p].pc = "commit_rm_backup", ![p].committed = tmp]
          ELSE /\ LET r == RollbackResult(live, bak, tmp, runs[p].had_old, TRUE, TRUE, TRUE)
                  IN live' = r.live /\ bak' = r.bak /\ tmp' = r.tmp
               /\ RunRaise(p)
  /\ TwoRunsFrame

\* lines 341-346 and 531-536
TwoRunsCommitRemoveBackup ==
  /\ \E p \in Procs :
       /\ runs[p].pc = "commit_rm_backup"
       /\ runs' = [runs EXCEPT ![p].pc = "done", ![p].result = 0]
  /\ bak' = NoDir
  /\ UNCHANGED <<live, tmp>>
  /\ TwoRunsFrame

NextTwoRuns ==
  \/ TwoRunsPrepare \/ TwoRunsDownloaded \/ TwoRunsDownloadFails
  \/ TwoRunsCheckFailures \/ TwoRunsCleanup
  \/ TwoRunsWriteIndex \/ TwoRunsSaveManifest \/ TwoRunsCheckRequired
  \/ TwoRunsCommitBegin \/ TwoRunsCommitMoveOld \/ TwoRunsCommitRename
  \/ TwoRunsCommitRemoveBackup

SpecTwoRuns == InitTwoRuns /\ [][NextTwoRuns]_vars

\* ======================================================================
\* Properties
\* ======================================================================
InRun == pc \notin {"idle", "killed"}

\* why a run can fail before AtomicSync.commit is entered
PreCommitAbortCauses ==
  {"zero_entries", "sitemap_error", "corrupt_manifest", "sanity_drop", "fail_ratio",
   "zero_success", "missing_required", "missing_index", "staging_error",
   "prepare_error", "cleanup_error"}

\* the causes that are exceptions caught by the handler of line 537
ExceptionCauses ==
  {"corrupt_manifest", "sitemap_error", "prepare_error", "staging_error",
   "cleanup_error", "commit_no_tmp", "commit_backup_stuck", "commit_move_error",
   "commit_rename_error"}

\* the tree the run has staged, told from its bookkeeping: a reused document
\* is the pre-run file, a downloaded one is the document served now
UrlOfPath(p) == CHOOSE u \in URLs : UrlToRelPath(u) = p
StagedFile(u) ==
  IF new_manifest.entries[u] = NoEntry THEN NoFile
  ELSE IF u \in reused THEN live0.files[UrlToRelPath(u)]
  ELSE Content(u, Now)
NewSnapshot ==
  [exists |-> TRUE,
   files |-> [p \in Paths |-> StagedFile(UrlOfPath(p))],
   index |-> GenerateIndex(docs_info),
   manifest |-> ManifestToFile(new_manifest)]

\* a complete, self-consistent snapshot: index, manifest, one file per
\* manifest entry and no other, every required file
Complete(d) ==
  /\ d.exists /\ d.index.exists /\ d.manifest.kind = "ok"
  /\ \A u \in URLs : (d.manifest.entries[u] # NoEntry) <=> FileExists(d, UrlToRelPath(u))
  /\ \A p \in required_files : FileExists(d, p)

\* C1: a run that aborts before the commit step (zero entries, sitemap error,
\* corrupt manifest, sanity drop, failure ratio, zero successes, missing
\* required or index file, exception while staging) returns nonzero and the
\* live directory, manifest included, is what it was when the run started.
C1_AbortBeforeCommitKeepsLive ==
  (pc = "done" /\ cause \in PreCommitAbortCauses) => (result = 1 /\ live = live0)

C1_Witness ==
  /\ pc = "done" /\ cause = "missing_required" /\ result = 1
  /\ live0.exists /\ live0.manifest.kind = "ok" /\ live = live0

\* C2 as claimed: after any exception the run returns nonzero, the scratch
\* tree is gone and the live directory has its pre-run content.
C2_ExceptionLeavesLiveUntouched ==
  (pc = "done" /\ cause \in ExceptionCauses) =>
    (result = 1 /\ ~tmp.exists /\ live = live0)

\* C2 as amended: after any exception the run returns nonzero; the scratch tree
\* is gone unless its removal failed; the live directory has its pre-run
\* content, unless the scratch rename of commit failed and the restoring
\* rename failed too: then it is absent and the backup holds that content.
C2_ExceptionBestEffort ==
  (pc = "done" /\ cause \in ExceptionCauses) =>
    /\ result = 1
    /\ cleanup_ok => ~tmp.exists
    /\ IF cause = "commit_rename_error"
       THEN live = live0 \/ (~live.exists /\ bak = live0)
       ELSE live = live0

C2_Witness ==
  /\ pc = "done" /\ cause = "commit_rename_error" /\ result = 1
  /\ live0.exists /\ live = live0 /\ ~tmp.exists

\* C3 as claimed: in every state of a run outside the window between the two
\* renames of commit, the live directory is the pre-run snapshot or the
\* complete new snapshot.
C3_LiveOldOrNew ==
  (InRun /\ pc \notin {"commit_rename", "commit_rollback"}) =>
    \/ live = live0
    \/ live = NewSnapshot /\ Complete(live)

\* C3 as amended: in every state of a run the live directory is the pre-run
\* snapshot, or the complete new snapshot (after the second rename), or absent
\* with the pre-run snapshot whole in the backup directory: inside the rename
\* window, and after it when the scratch rename and the restoring rename both
\* failed. No state has a live directory with files written one by one.
C3_LiveNeverPartial ==
  InRun =>
    \/ live = live0
    \/ /\ pc \in {"commit_rm_backup", "done"}
       /\ live = NewSnapshot /\ Complete(live)
    \/ /\ ~live.exists /\ bak = live0
       /\ \/ pc \in {"commit_rename", "commit_rollback"}
          \/ pc \in {"except", "done"} /\ cause = "commit_rename_error"

C3_Witness ==
  /\ pc = "done" /\ result = 0
  /\ live0.exists /\ live # live0 /\ live = NewSnapshot

\* C4: a run killed before it has promoted its snapshot leaves the live
\* directory and its manifest as they were when the run started.
C4_InterruptKeepsLive ==
  (pc = "killed" /\ cause # "commit_rm_backup") => live = live0

\* C5 as claimed: the scratch rename fails with a live directory present:
\* when commit hands control back, the live directory is the pre-run snapshot.
C5_RenameFailureRestoresLive ==
  (pc = "except" /\ cause = "commit_rename_error" /\ live0.exists) => live = live0

\* C5 as amended: ... the live directory is the pre-run snapshot, restored from
\* the backup, or, if the restoring rename failed too, absent with the pre-run
\* snapshot whole in the backup directory; never a mix of old and new files;
\* the exception is re-raised, so the run returns nonzero.
C5_RenameFailureRollback ==
  (cause = "commit_rename_error" /\ pc \in {"except", "done"} /\ live0.exists) =>
    /\ \/ live = live0 /\ ~bak.exists
       \/ ~live.exists /\ bak = live0
    /\ pc = "done" => result = 1

C5_Witness ==
  /\ pc = "except" /\ cause = "commit_rename_error"
  /\ live0.exists /\ live = live0 /\ ~bak.exists

\* what the checks between staging and commit establish, read off a tree
Validated(d) ==
  /\ ~(Len(entries) > 0 /\ fail_count * 100 > max_fail_ratio * Len(entries))
  /\ success_count >= 1
  /\ d.exists /\ d.index.exists
  /\ \A p \in required_files : FileExists(d, p)
  /\ d.manifest = ManifestToFile(new_manifest)

\* C6: a run returns 0 only if the failure-ratio, zero-success, required-file
\* and index checks all passed on the tree it staged and commit completed
\* with that tree live; a tree that failed a check is never the live
\* directory.
C6_ZeroOnlyAfterChecksAndCommit ==
  /\ (pc = "done" /\ result = 0) =>
       /\ cause = "none" /\ ~tmp.exists
       /\ live = NewSnapshot /\ Validated(live)
  /\ (InRun /\ live # live0) => (~live.exists \/ Validated(live))

C6_Witness ==
  /\ pc = "done" /\ result = 0 /\ fail_count > 0
  /\ required_files # {} /\ live0.exists /\ live # live0

\* the URL count of the manifest the run found in the live directory
PrevUrlCount ==
  IF live0.exists /\ live0.manifest.kind = "ok"
  THEN live0.manifest.meta.last_url_count ELSE 0

\* C7: with P > 0 the URL count of the previous manifest, N the number of
\* filtered entries and r the configured ratio, a run aborts on the sanity
\* guard exactly when (P - N) / P > r, strictly: at the default 20% P = 100,
\* N = 70 aborts and N = 80 does not. The abort returns nonzero, creates no
\* scratch tree and leaves the live directory as it was.
C7_SanityGuardStrict ==
  /\ (pc = "done" /\ cause = "sanity_drop") =>
       /\ result = 1 /\ live = live0
       /\ tmp \in {NoDir, StaleDir}
       /\ PrevUrlCount > 0
       /\ (PrevUrlCount - Len(entries)) * 100 > sanity_drop_ratio * PrevUrlCount
  /\ pc = "prepare" =>
       \/ PrevUrlCount = 0
       \/ (PrevUrlCount - Len(entries)) * 100 <= sanity_drop_ratio * PrevUrlCount
  /\ SanityDropExceeded(100, 70, DEFAULT_SANITY_DROP_PCT)
  /\ ~SanityDropExceeded(100, 80, DEFAULT_SANITY_DROP_PCT)

C7_Witness ==
  /\ pc = "done" /\ cause = "sanity_drop" /\ result = 1
  /\ PrevUrlCount = 2 /\ Len(entries) = 1 /\ live = live0

\* C8: with F failed downloads out of N entries and m the configured ratio, a
\* run aborts on the failure-ratio guard exactly when F / N > m, strictly: at
\* the default 15% 2 of 10 aborts and 1 of 10 does not. The abort discards the
\* scratch tree, returns nonzero and leaves the live directory as it was.
C8_FailRatioGuardStrict ==
  /\ (pc = "abort_cleanup" /\ cause = "fail_ratio") =>
       fail_count * 100 > max_fail_ratio * Len(entries)
  /\ (pc = "abort_cleanup" /\ cause = "zero_success") =>
       fail_count * 100 <= max_fail_ratio * Len(entries) /\ success_count = 0
  /\ pc = "gen_index" =>
       fail_count * 100 <= max_fail_ratio * Len(entries) /\ success_count >= 1
  /\ (pc = "done" /\ cause = "fail_ratio") =>
       result = 1 /\ live = live0 /\ ~tmp.exists
  /\ FailRatioExceeded(2, 10, DEFAULT_MAX_FAIL_PCT)
  /\ ~FailRatioExceeded(1, 10, DEFAULT_MAX_FAIL_PCT)

C8_Witness ==
  /\ pc = "done" /\ cause = "fail_ratio" /\ result = 1
  /\ live0.exists /\ live = live0 /\ ~tmp.exists

\* the sitemap entry of URL u in this run, if any
EntryOf(u) ==
  IF \E k \in 1..Len(entries) : entries[k].url = u
  THEN entries[CHOOSE k \in 1..Len(entries) : entries[k].url = u]
  ELSE [url |-> 0, lastmod |-> None]

\* C9: after a run that returned 0, the manifest in the live directory has an
\* entry for exactly the URLs that succeeded in this run, each with the lastmod
\* of the current sitemap; a URL whose download failed, or that the sitemap no
\* longer lists, has none.
C9_ManifestIsSucceededUrls ==
  (pc = "done" /\ result = 0) =>
    /\ live.manifest.kind = "ok"
    /\ \A u \in URLs :
         LET e == live.manifest.entries[u]
             succeeded == EntryOf(u).url = u /\ u \notin failed
         IN IF succeeded
            THEN e.url = u /\ e.lastmod = EntryOf(u).lastmod
                 /\ e.local_path = UrlToRelPath(u)
            ELSE e = NoEntry

C9_Witness ==
  /\ pc = "done" /\ result = 0 /\ failed # {}
  /\ \E u \in failed : live0.exists /\ live0.manifest.kind = "ok"
                       /\ live0.manifest.entries[u] # NoEntry

\* the entry the manifest found in the live directory has for URL u
PrevEntry(u) ==
  IF live0.exists /\ live0.manifest.kind = "ok"
  THEN live0.manifest.entries[u] ELSE NoEntry

\* the four conditions under which an entry is reused
ReuseConditions(entry) ==
  /\ ~force
  /\ PrevEntry(entry.url) # NoEntry
  /\ entry.lastmod # None /\ PrevEntry(entry.url).lastmod # None
  /\ entry.lastmod = PrevEntry(entry.url).lastmod
  /\ FileExists(live0, UrlToRelPath(entry.url))

\* C10: an entry is reused (its live file copied, nothing downloaded) exactly
\* when force is off, the previous manifest has an entry for its URL, both
\* lastmod values are present and equal, and its file exists in the live
\* directory; if any of these fails the entry is downloaded.
C10_ReuseIffUnchanged ==
  pc \in {"loop", "abort_cleanup", "gen_index", "save_manifest", "check_required",
          "commit", "commit_move", "commit_rename", "commit_rm_backup"} =>
    \A k \in 1..Len(entries) :
      k < i => /\ entries[k].url \in reused <=> ReuseConditions(entries[k])
               /\ entries[k].url \in fetched <=> ~ReuseConditions(entries[k])

C10_Witness ==
  /\ pc = "loop" /\ i > Len(entries) /\ ~force
  /\ reused # {} /\ fetched # {}
  /\ \E k \in 1..Len(entries) :
       /\ entries[k].url \in fetched
       /\ PrevEntry(entries[k].url) # NoEntry
       /\ PrevEntry(entries[k].url).lastmod # None
       /\ FileExists(live0, UrlToRelPath(entries[k].url))

\* the cached fields of entry e are those of the previous entry of URL u
CarriedOver(e, u) ==
  /\ e # NoEntry /\ e.url = u
  /\ e.title = PrevEntry(u).title
  /\ e.description = PrevEntry(u).description
  /\ e.last_sync_time = PrevEntry(u).last_sync_time
  /\ e.last_sync_time # Now

\* C11: for every reused entry the file staged in the scratch tree is the live
\* file, content unchanged, and the new manifest entry has the previous
\* entry's title, description and last_sync_time, not the time of this run;
\* the same holds of the live directory once the snapshot is promoted.
C11_ReuseCarriesOver ==
  \A u \in reused :
    /\ pc \in {"loop", "abort_cleanup", "gen_index", "save_manifest", "check_required",
               "commit", "commit_move", "commit_rename"} =>
         /\ FileExists(tmp, UrlToRelPath(u))
         /\ tmp.files[UrlToRelPath(u)] = live0.files[UrlToRelPath(u)]
         /\ CarriedOver(new_manifest.entries[u], u)
    /\ (pc = "commit_rm_backup" \/ (pc = "done" /\ result = 0)) =>
         /\ live.files[UrlToRelPath(u)] = live0.files[UrlToRelPath(u)]
         /\ live.manifest.kind = "ok"
         /\ CarriedOver(live.manifest.entries[u], u)

C11_Witness ==
  /\ pc = "done" /\ result = 0
  /\ reused # {} /\ fetched # {} /\ failed = {}
  /\ \E u \in reused : live.manifest.entries[u].last_sync_time = Past

\* the run before this one committed every entry of this same sitemap, with
\* these lastmod values, and the mirror has not been touched since
NoUpstreamChange ==
  /\ live0.exists /\ live0.manifest.kind = "ok"
  /\ Len(entries) > 0
  /\ live0.manifest.meta.last_url_count = Len(entries)
  /\ \A k \in 1..Len(entries) :
       /\ PrevEntry(entries[k].url) # NoEntry
       /\ PrevEntry(entries[k].url).lastmod = entries[k].lastmod
       /\ FileExists(live0, UrlToRelPath(entries[k].url))

LiveManifestOnlySwapped ==
  (InRun /\ pc # "done" /\ live'.manifest # live.manifest) =>
    \/ pc = "commit_move" /\ live' = NoDir /\ bak' = live
    \/ pc = "commit_rename" /\ live' = tmp /\ tmp' = NoDir
    \/ pc = "commit_rollback" /\ live' = bak /\ bak' = NoDir

\* a step that writes a manifest file into the scratch tree is the one save
\* of line 517
ScratchManifestSavedOnce ==
  (InRun /\ tmp'.manifest # tmp.manifest /\ tmp'.manifest.kind = "ok") =>
    /\ pc = "save_manifest" /\ pc' = "check_required"
    /\ tmp.manifest.kind = "missing"
    /\ tmp'.manifest = ManifestToFile(new_manifest)

C14_FetchFailureNeverRaises ==
  download.fn = "download_content" => download.outcome # "raised"

\* C17: one call issues at most max_retries requests, whatever the servers
\* answer, and then ends.
C17_AtMostMaxRetriesRequests ==
  /\ [](/\ download.requests <= download.max_retries
        /\ download.attempt <= download.requests
        /\ download.outcome = "running" => download.requests = download.attempt)
  /\ (download.fn # "none") ~> (download.outcome # "running")

C17_Witness ==
  /\ download.fn = "download_content" /\ download.max_retries = DEFAULT_MAX_RETRIES
  /\ download.outcome = "None" /\ download.reason = "exhausted"
  /\ download.requests = DEFAULT_MAX_RETRIES /\ Len(download.delays) = 2

\* C18: a 429 response does not count against the growth of the backoff: the
\* delay slept for the n-th transient error of a call is the n-th backoff
\* step, however many 429 responses came before it.
C18_RateLimitKeepsBackoff ==
  \A j \in 1..Len(download.delays) : download.delays[j].delay = Backoff(j - 1)

IndexOfUrlsets ==
  /\ web # NoWeb /\ web["root"].kind = "sitemapindex"
  /\ SitemapLocs(web["root"]) # <<>>
  /\ \A k \in 1..Len(SitemapLocs(web["root"])) :
       web[SitemapLocs(web["root"])[k]].kind = "urlset"

\* every located <url> element of the children, in traversal order
RECURSIVE Concat(_)
Concat(ss) == IF ss = <<>> THEN <<>> ELSE Head(ss) \o Concat(Tail(ss))
Traversal ==
  Concat([k \in 1..Len(SitemapLocs(web["root"])) |->
            UrlsetEntries(web[SitemapLocs(web["root"])[k]].urls)])

\* the positions of the traversal that hold the first occurrence of their URL
FirstIndexes(flat) ==
  {k \in 1..Len(flat) : \A j \in 1..(k - 1) : flat[j].url # flat[k].url}
FirstIndexOf(flat, u) == CHOOSE k \in FirstIndexes(flat) : flat[k].url = u

\* C15: on a sitemap index fetch_and_parse returns the union of the entries
\* of its child sitemaps with no URL twice: of a URL that occurs more than
\* once, in one child or in several, the first occurrence of the traversal
\* is kept, with its lastmod, and first occurrences keep their order.
C15_IndexUnionFirstWins ==
  (pc \in {"prepare", "done"} /\ cause # "sitemap_error" /\ web # NoWeb) =>
    /\ \A x, y \in 1..Len(entries) : x # y => entries[x].url # entries[y].url
    /\ IndexOfUrlsets =>
         /\ {entries[k].url : k \in 1..Len(entries)} =
              {Traversal[k].url : k \in 1..Len(Traversal)}
         /\ Len(entries) = Cardinality(FirstIndexes(Traversal))
         /\ \A k \in 1..Len(entries) :
              entries[k] = Traversal[FirstIndexOf(Traversal, entries[k].url)]
         /\ \A x, y \in 1..Len(entries) :
              x < y => FirstIndexOf(Traversal, entries[x].url)
                         < FirstIndexOf(Traversal, entries[y].url)

C15_Witness ==
  /\ pc = "prepare" /\ IndexOfUrlsets
  /\ SitemapLocs(web["root"]) = <<"a", "b">>
  /\ web["a"].urls = <<[loc |-> 2, lastmod |-> "2024-01-01"], [loc |-> 1, lastmod |-> None]>>
  /\ web["b"].urls = <<[loc |-> 1, lastmod |-> "2024-02-01"], [loc |-> 2, lastmod |-> "2024-02-01"]>>
  /\ entries = <<[url |-> 2, lastmod |-> "2024-01-01"], [url |-> 1, lastmod |-> None]>>

\* the root document is one fetch_and_parse must refuse
RootRefused ==
  \/ web["root"].kind = "invalid_xml"
  \/ web["root"].kind = "sitemapindex" /\ SitemapLocs(web["root"]) = <<>>
  \/ web["root"].kind \notin {"sitemapindex", "urlset", "unreachable"}

\* C16: fetch_and_parse raises when the root document is not XML, when an
\* index names no child sitemap, and when the root element is neither an
\* index nor a urlset, and sync_docs then returns nonzero; a <url> without
\* <loc> is skipped and a missing <lastmod> gives lastmod None, neither
\* raises.
C16_RootRefusedBenignAccepted ==
  (web # NoWeb /\ pc # "fetch_sitemap") =>
    /\ RootRefused =>
         /\ pc \in {"except", "done"} /\ cause = "sitemap_error"
         /\ pc = "done" => result = 1
    /\ web["root"].kind = "urlset" =>
         /\ cause # "sitemap_error"
         /\ {entries[k].url : k \in 1..Len(entries)} =
              {e.loc : e \in {web["root"].urls[k] : k \in 1..Len(web["root"].urls)}} \ {0}
         /\ \A k \in 1..Len(entries) :
              \E j \in 1..Len(web["root"].urls) :
                /\ web["root"].urls[j].loc = entries[k].url
                /\ web["root"].urls[j].lastmod = entries[k].lastmod

C16_Witness ==
  /\ pc = "done" /\ result = 1 /\ cause = "sitemap_error"
  /\ web["root"].kind = "sitemapindex"
  /\ web["root"].children = <<NoLoc>>

\* "entries" is present and is not a mapping from URL to entry object
EntriesMalformed(f) ==
  /\ f.kind = "object" /\ f.shape # "absent"
  /\ ~(f.shape = "dict" /\ \A u \in URLs : f.dict[u] = NoItem \/ f.dict[u].obj)

\* C20 as claimed: load returns an empty manifest when there is no file, and
\* raises whenever the file is not parseable structured data or its entries
\* are not a mapping from URL to entry object.
C20_MalformedEntriesRaise ==
  load.outcome \in {"returned", "raised"} =>
    /\ load.file.kind = "absent" =>
         /\ load.outcome = "returned" /\ load.meta = EmptyMeta
         /\ \A u \in URLs : load.entries[u] = NoItem
    /\ (load.file.kind \in {"not_json", "not_object"} \/ EntriesMalformed(load.file)) =>
         load.outcome = "raised"

\* C20 as amended: load returns an empty manifest when there is no file; it
\* raises when the file is not JSON, when the JSON is not an object, and when
\* "entries" is a truthy value that is neither an object nor a list. A falsy
\* "entries" (null, 0, "", false, empty) loads as no entries; a list is
\* converted, keeping for each url the last item that is an object with that
\* url and dropping the rest; an object is taken as it is, its values
\* unchecked.
C20_LoadAcceptsListsAndUncheckedValues ==
  load.outcome \in {"returned", "raised"} =>
    /\ load.file.kind = "absent" =>
         /\ load.outcome = "returned" /\ load.meta = EmptyMeta
         /\ \A u \in URLs : load.entries[u] = NoItem
    /\ load.outcome = "raised" <=>
         \/ load.file.kind \in {"not_json", "not_object"}
         \/ load.file.kind = "object" /\ load.file.shape = "scalar"
    /\ load.outcome = "returned" /\ load.file.kind = "object" =>
         /\ load.meta = load.file.meta
         /\ load.file.shape \in {"absent", "falsy"} =>
              \A u \in URLs : load.entries[u] = NoItem
         /\ load.file.shape = "dict" => load.entries = load.file.dict
         /\ load.file.shape = "list" =>
              \A u \in URLs :
                LET l == load.file.list
                    at == {k \in 1..Len(l) : l[k].obj /\ l[k].url = u}
                IN /\ at = {} => load.entries[u] = NoItem
                   /\ at # {} => \E k \in at : /\ load.entries[u] = l[k]
                                               /\ \A j \in at : j <= k

C20_Witness ==
  /\ load.outcome = "returned" /\ load.file.kind = "object"
  /\ load.file.shape = "list" /\ Len(load.file.list) = 2
  /\ load.file.list[1].obj /\ load.file.list[2].obj
  /\ load.file.list[1].url = 1 /\ load.file.list[2].url = 1
  /\ load.file.list[1].lastmod # load.file.list[2].lastmod
  /\ load.entries[1] = load.file.list[2]

\* C21: set(entry) upserts by url: afterwards get(entry.url) is the given
\* entry whatever was stored before, and every other URL's entry is unchanged;
\* an entry with a missing or empty url makes set raise and leaves the entries
\* unchanged.
C21_SetUpsertsByUrl ==
  store.call = "set" =>
    /\ store.at = "returned" <=> (store.at # "called" /\ store.entry.url # 0)
    /\ store.at = "raised" <=> (store.at # "called" /\ store.entry.url = 0)
    /\ store.at = "returned" =>
         /\ ManifestGet(store.manifest, store.entry.url) = store.entry
         /\ \A u \in URLs \ {store.entry.url} :
              ManifestGet(store.manifest, u) = ManifestGet(store.manifest0, u)
         /\ store.manifest.meta = store.manifest0.meta
    /\ store.at = "raised" => store.manifest = store.manifest0

C21_Witness ==
  /\ store.call = "set" /\ store.at = "returned"
  /\ ManifestGet(store.manifest0, store.entry.url) # NoEntry
  /\ ManifestGet(store.manifest0, store.entry.url) # store.entry
  /\ ManifestGet(store.manifest, store.entry.url) = store.entry
  /\ \E u \in URLs : u # store.entry.url /\ ManifestGet(store.manifest, u) # NoEntry

\* C22: at every point of save, a crash or a failure included, the file at
\* the target path is the complete previous manifest (or still absent) or the
\* complete new manifest; it is the new one once save has returned, and the
\* text is written to the temporary sibling only.
C22_SaveNeverLeavesPartialTarget ==
  store.call = "save" =>
    /\ store.target \in {store.target0, ManifestToFile(store.manifest)}
    /\ store.target.kind # "partial"
    /\ store.at = "returned" =>
         store.target = ManifestToFile(store.manifest) /\ store.temp = NoManifestFile
    /\ store.at \in {"called", "writing", "written"} => store.target = store.target0

C22_Witness ==
  /\ store.call = "save" /\ store.at = "crashed"
  /\ store.temp = PartialManifestFile
  /\ store.target0.kind = "ok" /\ store.target = store.target0
  /\ store.target # ManifestToFile(store.manifest)

\* C23: prepare, whatever the three directories held before (a stale scratch
\* directory included), returns with a scratch directory that exists and is
\* empty; the live and backup directories are as they were, also when
\* prepare raises.
C23_PrepareEmptiesScratchOnly ==
  atomic.call = "prepare" =>
    /\ live = atomic.live0 /\ bak = atomic.bak0
    /\ pc = "loop" => tmp = EmptyDir
    /\ pc \in {"prepare", "loop", "except"}

C23_Witness ==
  /\ atomic.call = "prepare" /\ pc = "loop"
  /\ FileExists(atomic.tmp0, UrlToRelPath(1)) /\ tmp = EmptyDir
  /\ FileExists(live, UrlToRelPath(1)) /\ bak.exists

CommitCompleted == atomic.call = "commit" /\ pc = "done" /\ result = 0

\* C24: when commit completes without raising, the live directory is the tree
\* that was staged in the scratch directory, the scratch directory is gone, and
\* the backup directory is gone too, unless its removal failed: then it still
\* holds the superseded snapshot. Once the scratch directory is in place,
\* commit always completes, with the live directory as it is.
C24_CommitPromotesStaged ==
  /\ [](CommitCompleted =>
          /\ live = atomic.tmp0 /\ live.exists
          /\ ~tmp.exists
          /\ bak = NoDir \/ (atomic.live0.exists /\ bak = atomic.live0))
  /\ [][(atomic.call = "commit" /\ pc = "commit_rm_backup") =>
          (pc' = "done" /\ result' = 0 /\ live' = live /\ tmp' = tmp)]_vars

C24_Witness ==
  /\ CommitCompleted
  /\ atomic.live0.exists /\ atomic.bak0.exists /\ atomic.bak0 # atomic.live0
  /\ FileExists(live, UrlToRelPath(1)) /\ live = atomic.tmp0
  /\ ~tmp.exists /\ ~bak.exists

\* the two returns that precede atomic.prepare() and call no cleanup
ReturnsBeforePrepare == {"zero_entries", "sanity_drop"}

\* C25 as claimed: whenever sync_docs returns nonzero, no scratch directory
\* exists when it returns.
C25_FailedRunLeavesNoScratch ==
  (pc = "done" /\ result = 1) => ~tmp.exists

\* C25 as amended: when sync_docs returns nonzero, the scratch directory is
\* gone, except in two cases: the run returned on zero entries or on the
\* sanity guard, where no cleanup is called and a scratch directory left by an
\* earlier interrupted run stays as it was; or the rmtree of the handler's
\* cleanup failed, which the handler swallows.
C25_ScratchGoneUnlessNoCleanup ==
  (pc = "done" /\ result = 1) =>
    /\ (cause \notin ReturnsBeforePrepare /\ cleanup_ok) => ~tmp.exists
    /\ cause \in ReturnsBeforePrepare => tmp \in {NoDir, StaleDir}
    /\ cause \in ReturnsBeforePrepare \cup
                 {"fail_ratio", "zero_success", "missing_required", "missing_index"}
         => cleanup_ok

C25_Witness ==
  /\ pc = "done" /\ result = 1 /\ cause = "fail_ratio"
  /\ live0.exists /\ live = live0 /\ ~tmp.exists /\ cleanup_ok

\* the manifest of this run is in the scratch tree
ManifestSaved == tmp.exists /\ tmp.manifest.kind = "ok"

\* C27 as claimed: the manifest file is written into the scratch tree only
\* after the required-files check and the index-file check have succeeded.
C27_ManifestSavedAfterChecks ==
  (InRun /\ ManifestSaved) =>
    pc \in {"commit", "commit_move", "commit_rename", "commit_rollback",
            "commit_rm_backup", "except", "done"}

\* C27 as amended: the manifest file is written after the failure-ratio and
\* zero-success guards and after the index file, and before the
\* required-files and index-file checks; a run that fails one of these two
\* checks has already written its manifest into the scratch tree, which it
\* then discards. The commit is entered only after both checks.
C27_ManifestSavedBeforeChecks ==
  InRun =>
    /\ pc \in {"load_manifest", "fetch_sitemap", "prepare", "loop", "gen_index",
               "save_manifest"} => ~ManifestSaved
    /\ pc = "check_required" =>
         /\ ManifestSaved /\ tmp.manifest = ManifestToFile(new_manifest)
         /\ tmp.index = GenerateIndex(docs_info)
         /\ ~FailRatioExceeded(fail_count, Len(entries), max_fail_ratio)
         /\ success_count > 0
    /\ (pc = "abort_cleanup" /\ ManifestSaved) <=>
         (pc = "abort_cleanup" /\ cause \in {"missing_required", "missing_index"})
    /\ pc \in {"commit", "commit_move", "commit_rename"} =>
         ManifestSaved /\ MissingRequired(tmp) = {} /\ tmp.index.exists

C27_Witness ==
  /\ pc = "abort_cleanup" /\ cause = "missing_required"
  /\ ManifestSaved /\ MissingRequired(tmp) # {}

\* the URLs of the filtered sitemap of this run
SitemapUrlSet == {entries[k].url : k \in 1..Len(entries)}

\* C30: after a successful commit the live mirror holds exactly the documents
\* staged in this run: a document of the previous snapshot whose URL is no
\* longer in the sitemap, or whose refetch failed in this run, is absent from
\* the live mirror and from the manifest.
C30_NothingCarriedOverUnstaged ==
  (pc = "done" /\ result = 0) =>
    \A u \in URLs :
      /\ (u \notin SitemapUrlSet \/ u \in failed) =>
           /\ ~FileExists(live, UrlToRelPath(u))
           /\ live.manifest.entries[u] = NoEntry
      /\ FileExists(live, UrlToRelPath(u)) <=> u \in (fetched \cup reused) \ failed

C30_Witness ==
  /\ pc = "done" /\ result = 0
  /\ \E u \in failed :
       /\ FileExists(live0, UrlToRelPath(u)) /\ live0.manifest.entries[u] # NoEntry
       /\ ~FileExists(live, UrlToRelPath(u)) /\ live.manifest.entries[u] = NoEntry

\* C26: when a per-site fetch script fails because the sitemap cannot be
\* fetched or yields no documentation pages, it exits nonzero and the output
\* directory still holds the previously mirrored files.
C26_FailedDiscoveryKeepsMirror ==
  (pc = "done" /\ cause \in {"sitemap_error", "zero_entries"}) =>
    (result = 1 /\ live = live0)

\* C28: fetch_and_parse terminates on every graph of sitemap references,
\* cyclic and self-referencing ones included, and downloads each sitemap URL
\* at most once; a call on a URL already visited downloads nothing and adds
\* no entries. (What the step-by-step traversal returns is what the
\* recursive definition returns.)
C28_TerminatesAndDownloadsOnce ==
  /\ <>(crawl.at \in {"returned", "raised"})
  /\ [](\A u \in SitemapUrls :
          /\ crawl.downloads[u] <= 1
          /\ crawl.downloads[u] = 1 <=> u \in crawl.seen)
  /\ [][(Calling /\ NextUrl \in crawl.seen) =>
          /\ crawl'.downloads = crawl.downloads
          /\ crawl'.collected = crawl.collected
          /\ crawl'.seen = crawl.seen]_vars
  /\ [](crawl.at = "returned" =>
          /\ ~FetchAndParse(web).raised
          /\ FetchAndParse(web).entries = Dedupe(crawl.collected)
          /\ FetchAndParse(web).seen = crawl.seen)
  /\ [](crawl.at = "raised" => FetchAndParse(web).raised)

C28_Witness ==
  /\ crawl.at = "returned"
  /\ web["root"].kind = "sitemapindex" /\ web["root"].children = <<"a", "root">>
  /\ web["a"].kind = "sitemapindex" /\ web["a"].children = <<"a", "b">>
  /\ web["b"].kind = "urlset" /\ Len(crawl.collected) = 2
  /\ \A u \in SitemapUrls : crawl.downloads[u] = 1

\* the tree a process renamed into place holds its own manifest and, for
\* every entry of it, the document that this process wrote
SnapshotMatches(p) ==
  LET d == runs[p].committed
      m == runs[p].new_manifest
  IN /\ d.manifest = ManifestToFile(m)
     /\ \A u \in URLs :
          IF m.entries[u] = NoEntry THEN ~FileExists(d, UrlToRelPath(u))
          ELSE d.files[UrlToRelPath(u)] = Content(u, RunTime(p))

\* C29: nothing keeps two runs on one output directory apart. A run that has
\* the directory to itself commits a snapshot that matches its manifest; but
\* prepare empties the shared scratch directory and cleanup removes it
\* whatever the other run has staged there, so that (the witness) a run can
\* return 0 having committed its own manifest over a tree in which a listed
\* document is missing and another was written by the other run.
C29_NoMutualExclusion ==
  /\ [](\A p \in Procs :
          (runs # NoRuns /\ runs[p].result = 0 /\
           \A q \in Procs \ {p} : runs[q].pc = "idle") => SnapshotMatches(p))
  /\ [][runs # NoRuns =>
          \A p \in Procs :
            /\ (runs[p].pc = "idle" /\ runs'[p].pc = "loop") => tmp' = EmptyDir
            /\ (runs[p].pc \in {"abort_cleanup", "except"} /\ runs'[p].pc = "done")
                 => tmp' = NoDir]_vars

C29_Witness ==
  /\ runs # NoRuns
  /\ runs["A"].pc = "done" /\ runs["A"].result = 0
  /\ runs["A"].committed.manifest = ManifestToFile(runs["A"].new_manifest)
  /\ \A u \in URLs : runs["A"].new_manifest.entries[u] # NoEntry
  /\ ~FileExists(runs["A"].committed, UrlToRelPath(1))
  /\ runs["A"].committed.files[UrlToRelPath(MaxUrls)] = Content(MaxUrls, RunTime("B"))
  /\ ~SnapshotMatches("A")

\* the locals of the entry loop are alive: from prepare to the return of 0
LoopLocalsAlive ==
  \/ pc \in {"loop", "gen_index", "save_manifest", "check_required", "commit",
             "commit_move", "commit_rename", "commit_rm_backup"}
  \/ pc = "abort_cleanup"
  \/ pc = "done" /\ result = 0

\* C34: after any prefix of the entries (i - 1 of them processed),
\* success_count = downloaded_count + reused_count, success_count +
\* fail_count = i - 1, and the new manifest and docs_info both hold
\* success_count entries; after the loop success_count + fail_count =
\* len(entries); meta.last_url_count is len(entries) all along.
C34_LoopCounters ==
  LoopLocalsAlive =>
    /\ success_count = downloaded_count + reused_count
    /\ success_count + fail_count = i - 1
    /\ Cardinality({u \in URLs : new_manifest.entries[u] # NoEntry}) = success_count
    /\ Len(docs_info) = success_count
    /\ downloaded_count + fail_count = Cardinality(fetched)
    /\ reused_count = Cardinality(reused) /\ fail_count = Cardinality(failed)
    /\ i <= Len(entries) + 1
    /\ pc # "loop" => success_count + fail_count = Len(entries)
    /\ new_manifest.meta.last_url_count = Len(entries)

C34_Witness ==
  /\ pc = "loop" /\ i = Len(entries) + 1 /\ Len(entries) = MaxUrls
  /\ reused_count = 1 /\ fail_count = 1 /\ success_count = MaxUrls - 1
  /\ new_manifest.meta.last_url_count = Len(entries)
  /\ new_manifest.meta.last_url_count # success_count

\* C33: a stale backup directory that cannot be removed makes commit raise
\* before anything is moved: the live directory has its pre-commit content at
\* its own place, the backup and the scratch directory are as they were.
C33_StuckBackupMovesNothing ==
  (atomic.call = "commit" /\ cause = "commit_backup_stuck") =>
    /\ pc = "except"
    /\ atomic.bak0.exists /\ bak = atomic.bak0
    /\ live = atomic.live0
    /\ tmp = atomic.tmp0

C33_Witness ==
  /\ atomic.call = "commit" /\ cause = "commit_backup_stuck" /\ pc = "except"
  /\ FileExists(atomic.live0, UrlToRelPath(1)) /\ live = atomic.live0
  /\ bak.exists /\ bak # live /\ tmp.exists

\* the last_url_count recorded in a mirror directory (0 when there is none)
RecordedUrlCount(d) ==
  IF d.exists /\ d.manifest.kind = "ok" THEN d.manifest.meta.last_url_count ELSE 0

\* the sitemap of this run is more than sanity_drop_ratio below the count
\* recorded when the run started
DroppedTooMuch ==
  /\ PrevUrlCount > 0
  /\ (PrevUrlCount - Len(entries)) * 100 > sanity_drop_ratio * PrevUrlCount

NoLiveAtStart == InRun /\ pc # "load_manifest" /\ ~live0.exists

\* C31: a kill between the two renames of commit leaves no live directory and
\* the previous snapshot in the backup directory, and nothing puts it back:
\* it stays so until the next run; that run loads an empty manifest, fetches
\* every entry it processes (none is reused), and its commit removes the
\* leftover backup before promoting its own snapshot; the live directory is
\* never anything but absent or that run's new snapshot, and absent when the
\* run returns nonzero.
C31_BackupNeverPromoted ==
  /\ []((pc = "killed" /\ cause = "commit_rename" /\ live0.exists) =>
          (~live.exists /\ bak = live0 /\ tmp.exists))
  /\ [][(~live.exists /\ bak.exists /\ pc' = "idle") =>
          (~live'.exists /\ bak'.exists)]_vars
  /\ [](NoLiveAtStart =>
          /\ pc \notin {"except", "done"} => old_manifest = EmptyManifest
          /\ reused = {} /\ reused_count = 0
          /\ LoopLocalsAlive => fetched = {entries[k].url : k \in 1..(i - 1)}
          /\ ~live.exists \/ (live = NewSnapshot /\ pc \in {"commit_rm_backup", "done"})
          /\ pc \in {"commit_move", "commit_rename", "commit_rm_backup"} => ~bak.exists
          /\ pc = "done" =>
               IF result = 0 THEN live = NewSnapshot /\ ~bak.exists
               ELSE ~live.exists)
  /\ [][(pc = "commit" /\ pc' = "commit_move") => (~bak'.exists /\ live' = live)]_vars

C31_Witness ==
  /\ pc = "commit" /\ ~live0.exists /\ ~live.exists
  /\ bak.exists /\ bak = StaleDir
  /\ tmp.exists /\ tmp = NewSnapshot
  /\ old_manifest = EmptyManifest
  /\ Len(entries) = MaxUrls /\ fetched = {entries[k].url : k \in 1..Len(entries)}
  /\ reused = {}

====
